---- MODULE Spec2Model ----
(***************************************************************************)
(* MetaAgent: the collaboration manager (core/collaboration.py) running a  *)
(* collaboration plan over a pool of agents (agents/base_agent.py), with   *)
(* its confidence-gated refinement loop; the evolution engine              *)
(* (core/evolution_engine.py) over the template store of the agent         *)
(* factory; the Experience Hub (memory/experience_hub.py); and handle_task *)
(* of the MetaAgent (core/meta_agent.py).                                  *)
(*                                                                         *)
(* One action is the code that runs between two suspension points of       *)
(* execute_plan: the points are the awaits of Agent.generate.  Confidences *)
(* are kept in hundredths (0.75 is 75).  A Python str or int that the code *)
(* compares or uses as a dict key is a record [type, val].                 *)
(***************************************************************************)
EXTENDS Integers, Sequences, FiniteSets, TLC

VARIABLES
    plan,              \* execute_plan's argument: [steps, final_output]
    agents,            \* execute_plan's argument: the pool, a list of agents
    task_description,  \* execute_plan's argument
    pc,                \* "idle", "start", "action", "review", "refine", "done", "raised"
    i,                 \* index of the plan step being executed (0-based)
    pending,           \* the generate call awaited: [agent, role, prompt]
    step_outputs,      \* dict: step index -> result dict
    steps,             \* final_result["steps"]
    output,            \* final_result["output"]
    error,             \* the exception execute_plan raised, if any
    current_solution,  \* _execute_refinement_loop: current_solution_dict
    loop_i,            \* _execute_refinement_loop: the loop index i
    trace,             \* history of the step whose actor returned last
    agent_templates,   \* AgentFactory.agent_templates: category -> template
    templates_file,    \* config/agent_templates.json: [exists, data]
    evo_pc,            \* EvolutionEngine: "idle", "improve", "raised"
    evo,               \* the evolution attempt in progress or just ended
    evo_count,         \* evolution attempts started
    ht_pc,             \* MetaAgent.handle_task: "idle", "analyze"
    ht,                \* the handle_task call in progress or just ended
    ht_count,          \* handle_task calls started
    graph,             \* ExperienceHub.graph: [nodes, attrs, edges]
    db_file,           \* memory/experience_graph.json: [exists, data]
    hub_prev,          \* the graph before the last ExperienceHub call
    hub_call,          \* the last ExperienceHub call and how it ended
    hub_count,         \* ExperienceHub calls made
    created,           \* the agent that create_agents made last
    flows,             \* the evolution attempts that run side by side
    commits,           \* the templates that save_agent_template saved, in order
    gen,               \* a call of Agent.generate: its outcome and its result
    st_pc,             \* where the running evolution invocation stands
    st,                \* the record of the last evolution invocation
    st_count,          \* evolution invocations started
    hash_seed,         \* the seed of str hashes in the running process
    hub_saved,         \* the graph that _save_graph wrote last
    hub_restarts       \* processes started after the first

collab_vars == <<plan, agents, task_description, pc, i, pending, step_outputs,
                 steps, output, error, current_solution, loop_i, trace, gen>>

engine_vars == <<agent_templates, templates_file, evo_pc, evo, evo_count,
                 st_pc, st, st_count, created, flows, commits>>

task_vars == <<ht_pc, ht, ht_count>>

hub_vars == <<graph, db_file, hub_prev, hub_call, hub_count, hash_seed,
              hub_saved, hub_restarts>>

vars == <<plan, agents, task_description, pc, i, pending, step_outputs, steps,
          output, error, current_solution, loop_i, trace,
          agent_templates, templates_file, evo_pc, evo, evo_count,
          ht_pc, ht, ht_count, graph, db_file, hub_prev, hub_call, hub_count,
          hash_seed, hub_saved, hub_restarts, st_pc, st, st_count,
          gen, created, flows, commits>>

-----------------------------------------------------------------------------
(* Program constants *)

MAX_REFINE_LOOPS == 2
CONFIDENCE_THRESHOLD == 75

(* Bound of the model: the longest plan *)
MaxSteps == 2

-----------------------------------------------------------------------------
(* Values *)

StrV(s) == [type |-> "str", val |-> s]
IntV(n) == [type |-> "int", val |-> n]
Absent == [type |-> "absent"]
NoResult == [kind |-> "none"]
NoCall == [role |-> "none"]
NoError == [exc |-> "none"]
NoAgent == [found |-> FALSE]
EvalNone == [type |-> "none"]
EvalDict(c, r) == [type |-> "dict", confidence |-> c, reasoning |-> r]

IsStr(v, s) == v.type = "str" /\ v.val = s

-----------------------------------------------------------------------------
(* Text: str.upper() and the substring test, on the characters of a text *)

Chars(t) ==
    CASE t = "CORRECT" -> <<"C","O","R","R","E","C","T">>
      [] t = "" -> << >>
      [] t = "This is incorrect." ->
           <<"T","h","i","s"," ","i","s"," ","i","n","c","o","r","r","e","c",
             "t",".">>
      [] t = "Needs work" -> <<"N","e","e","d","s"," ","w","o","r","k">>
      [] t = "Looks correct." ->
           <<"L","o","o","k","s"," ","c","o","r","r","e","c","t",".">>
      [] t = "Error: Request timed out. Details: ReadTimeout" ->
           <<"E","r","r","o","r",":"," ","R","e","q","u","e","s","t"," ",
             "t","i","m","e","d"," ","o","u","t","."," ","D","e","t","a",
             "i","l","s",":"," ","R","e","a","d","T","i","m","e","o","u","t">>
      [] t = "Error: API connection error. Status code 503. Details: Server error" ->
           <<"E","r","r","o","r",":"," ","A","P","I"," ","c","o","n","n","e",
             "c","t","i","o","n"," ","e","r","r","o","r","."," ","S","t","a",
             "t","u","s"," ","c","o","d","e"," ","5","0","3","."," ","D","e",
             "t","a","i","l","s",":"," ","S","e","r","v","e","r"," ","e","r",
             "r","o","r">>
      [] t = "Error: Runtime error during generation. Details: bad response" ->
           <<"E","r","r","o","r",":"," ","R","u","n","t","i","m","e"," ","e",
             "r","r","o","r"," ","d","u","r","i","n","g"," ","g","e","n","e",
             "r","a","t","i","o","n","."," ","D","e","t","a","i","l","s",":",
             " ","b","a","d"," ","r","e","s","p","o","n","s","e">>
      [] t = "Error: An unexpected error occurred. Details: ConnectError - refused" ->
           <<"E","r","r","o","r",":"," ","A","n"," ","u","n","e","x","p","e",
             "c","t","e","d"," ","e","r","r","o","r"," ","o","c","c","u","r",
             "r","e","d","."," ","D","e","t","a","i","l","s",":"," ","C","o",
             "n","n","e","c","t","E","r","r","o","r"," ","-"," ","r","e","f",
             "u","s","e","d">>

UpperChar(c) ==
    CASE c = "a" -> "A" [] c = "b" -> "B" [] c = "c" -> "C" [] c = "d" -> "D"
      [] c = "e" -> "E" [] c = "f" -> "F" [] c = "g" -> "G" [] c = "h" -> "H"
      [] c = "i" -> "I" [] c = "j" -> "J" [] c = "k" -> "K" [] c = "l" -> "L"
      [] c = "m" -> "M" [] c = "n" -> "N" [] c = "o" -> "O" [] c = "p" -> "P"
      [] c = "q" -> "Q" [] c = "r" -> "R" [] c = "s" -> "S" [] c = "t" -> "T"
      [] c = "u" -> "U" [] c = "v" -> "V" [] c = "w" -> "W" [] c = "x" -> "X"
      [] c = "y" -> "Y" [] c = "z" -> "Z" [] OTHER -> c

Upper(cs) == [k \in 1..Len(cs) |-> UpperChar(cs[k])]

Contains(cs, sub) ==
    \E k \in 1..(Len(cs) - Len(sub) + 1) : SubSeq(cs, k, k + Len(sub) - 1) = sub

IsAcceptExact(feedback) == Upper(Chars(feedback)) = Chars("CORRECT")

\* "CORRECT" in feedback.upper()
IsAcceptCaseSensitive(feedback) == Contains(Chars(feedback), Chars("CORRECT"))

IsAccept(feedback) == Contains(Upper(Chars(feedback)), Chars("CORRECT"))

\* f"{confidence:.2f}" of a confidence in hundredths
Fmt2f(c) ==
    ToString(c \div 100) \o "." \o ToString((c % 100) \div 10) \o ToString(c % 10)

-----------------------------------------------------------------------------
(* agents/base_agent.py: Agent.generate *)

\* What api_manager.generate_chat_completion does for one call: it returns
\* the raw response (its text before the separator, and what
\* extract_and_parse_json finds after it) or raises.
Ok(body, eval) == [kind |-> "ok", body |-> body, eval |-> eval]
Raises(exc, detail) == [kind |-> exc, detail |-> detail]

default_error_response(text) ==
    [response |-> text, confidence |-> 0, reasoning |-> "System-level error."]

Returned(result) == [raised |-> FALSE, value |-> result]
Propagated(exc, detail) == [raised |-> TRUE, exc |-> exc, detail |-> detail]

\* The try block: the result it returns, or the exception it raises.
GenerateTry(o) ==
    IF o.kind # "ok" THEN Propagated(o.kind, o.detail)
    ELSE IF o.eval.type = "dict"
         THEN IF o.eval.confidence.type = "float"
              THEN Returned([response |-> o.body,
                             confidence |-> o.eval.confidence.val,
                             reasoning |-> o.eval.reasoning])
              ELSE Propagated("ValueError",
                              "could not convert string to float: '"
                                  \o o.eval.confidence.val \o "'")
         ELSE Returned([response |-> o.body, confidence |-> 50,
                        reasoning |-> "Could not parse self-evaluation."])

\* The except clauses, in order; the last one takes every Exception.
GenerateNoCatchAll(o) ==
    LET r == GenerateTry(o) IN
    IF ~r.raised THEN r
    ELSE CASE r.exc = "TimeoutException" ->
                Returned(default_error_response(
                    "Error: Request timed out. Details: " \o r.detail))
           [] r.exc = "HTTPStatusError" ->
                Returned(default_error_response(
                    "Error: API connection error. Status code "
                        \o o.status_code \o ". Details: " \o r.detail))
           [] r.exc = "RuntimeError" ->
                Returned(default_error_response(
                    "Error: Runtime error during generation. Details: " \o r.detail))
           [] OTHER -> r

Generate(o) ==
    LET r == GenerateTry(o) IN
    IF ~r.raised THEN r
    ELSE CASE r.exc = "TimeoutException" ->
                Returned(default_error_response(
                    "Error: Request timed out. Details: " \o r.detail))
           [] r.exc = "HTTPStatusError" ->
                Returned(default_error_response(
                    "Error: API connection error. Status code "
                        \o o.status_code \o ". Details: " \o r.detail))
           [] r.exc = "RuntimeError" ->
                Returned(default_error_response(
                    "Error: Runtime error during generation. Details: " \o r.detail))
           [] OTHER ->
                Returned(default_error_response(
                    "Error: An unexpected error occurred. Details: "
                        \o r.exc \o " - " \o r.detail))

-----------------------------------------------------------------------------
(* The inputs the model draws from *)

Step(agent, action, input) == [agent |-> agent, action |-> action, input |-> input]
Agent(name, type) == [found |-> TRUE, name |-> name, type |-> type]

StepChoices ==
    { Step("Planner", "plan", StrV("task_description")),
      Step("Executor", "execute", StrV("previous_output")),
      Step("Executor", "code", IntV(0)),
      Step("Planner", "improve", StrV("step_1")),
      Step("Ghost", "execute", StrV("task_description")) }

FinalChoices == { Absent, StrV("last_output"), IntV(0), StrV("step_9") }

SeqsUpTo(S, n) == UNION { [1..k -> S] : k \in 0..n }

Plans ==
    { [steps |-> ss, final_output |-> f] :
          ss \in SeqsUpTo(StepChoices, MaxSteps), f \in FinalChoices }

Pools ==
    { << Agent("Planner", "planner"), Agent("Executor", "executor"),
         Agent("Reviewer", "reviewer") >>,
      << Agent("Planner", "planner"), Agent("Executor", "executor") >>,
      << Agent("Planner", "planner"), Agent("Reviewer", "reviewer") >>,
      << Agent("Planner", "planner"), Agent("CodeReviewer", "code_reviewer"),
         Agent("Coder", "code_generator") >> }

FloatV(c) == [type |-> "float", val |-> c]

\* What the generation service answers to a step's actor, to the reviewer
\* and to the refiner.
ActorOutcomes ==
    { Ok("draft A", EvalDict(FloatV(40), "unsure")),
      Ok("draft B", EvalDict(FloatV(75), "fairly sure")),
      Raises("TimeoutException", "ReadTimeout") }

ReviewOutcomes ==
    { Ok("CORRECT", EvalNone),
      Ok("Needs work", EvalNone),
      Ok("Looks correct.", EvalNone),
      Ok("This is incorrect.", EvalNone),
      Raises("TimeoutException", "ReadTimeout"),
      [kind |-> "HTTPStatusError", status_code |-> "503", detail |-> "Server error"],
      Raises("RuntimeError", "bad response"),
      Raises("ConnectError", "refused") }

RefineOutcomes ==
    { Ok("revision C", EvalDict(FloatV(40), "unsure")),
      Ok("revision D", EvalDict(FloatV(90), "sure")),
      [kind |-> "HTTPStatusError", status_code |-> "503", detail |-> "Server error"] }

\* A self-evaluation that holds 'confidence' without 'reasoning'.
EvalConfidenceOnly(c) == [type |-> "partial", confidence |-> c]

\* What the generation service answers to one call of Agent.generate.
GenerateBodies ==
    { "draft A", "draft B", "CORRECT", "Needs work", "Looks correct.", "" }

GenerateEvals ==
    { EvalNone, EvalConfidenceOnly(FloatV(90)),
      EvalDict(StrV("high"), "it is right") }
      \cup { EvalDict(FloatV(c), "sure") : c \in {-20, 0, 40, 75, 100, 150} }

GenerateOutcomes ==
    { Ok(body, eval) : body \in GenerateBodies, eval \in GenerateEvals }
      \cup { Raises("TimeoutException", "ReadTimeout"),
             Raises("RuntimeError", "API key missing"),
             Raises("KeyError", "'choices'"),
             [kind |-> "HTTPStatusError", status_code |-> "503",
              detail |-> "Server error"] }

NoGenerate == [called |-> FALSE, o |-> Raises("none", ""), confidence |-> 0,
               response |-> ""]

\* One call of Agent.generate that the service answers with gen.o.
CallGenerate ==
    /\ ~gen.called
    /\ gen.o.kind # "none"
    /\ LET result == Generate(gen.o).value
       IN  gen' = [gen EXCEPT !.called = TRUE,
                              !.confidence = result.confidence,
                              !.response = result.response]
    /\ UNCHANGED <<plan, agents, task_description, pc, i, pending, step_outputs,
                   steps, output, error, current_solution, loop_i, trace>>
    /\ UNCHANGED <<engine_vars, task_vars, hub_vars>>

-----------------------------------------------------------------------------
(* core/collaboration.py: CollaborationManager *)

\* step_outputs.get(key, {}).get("response", "")
GetResponse(outs, key) ==
    IF key.type = "int" /\ key.val \in DOMAIN outs THEN outs[key.val].response ELSE ""

\* The input of step idx (lines 36-41).
InputContentOrTask(input_source, idx, outs) ==
    IF IsStr(input_source, "task_description") THEN task_description
    ELSE IF IsStr(input_source, "previous_output") /\ idx > 0
         THEN outs[idx - 1].response
         ELSE IF input_source.type = "int" /\ input_source.val \in DOMAIN outs
              THEN outs[input_source.val].response
              ELSE task_description

InputContentNamedAsTask(input_source, idx, outs) ==
    IF IsStr(input_source, "task_description") THEN task_description
    ELSE IF IsStr(input_source, "previous_output") /\ idx > 0
         THEN outs[idx - 1].response
         ELSE IF input_source.type = "int" /\ input_source.val \in DOMAIN outs
              THEN task_description
              ELSE ""

InputContent(input_source, idx, outs) ==
    IF IsStr(input_source, "task_description") THEN task_description
    ELSE IF IsStr(input_source, "previous_output") /\ idx > 0
         THEN outs[idx - 1].response
         ELSE GetResponse(outs, input_source)

\* context["agents"].get(agent_name); the dict keeps the last agent of a name.
LookupAgentOrFirst(agent_name) ==
    LET at == { k \in 1..Len(agents) : agents[k].name = agent_name } IN
    IF at = {} THEN agents[1]
    ELSE agents[CHOOSE k \in at : \A m \in at : m <= k]

LookupAgent(agent_name) ==
    LET at == { k \in 1..Len(agents) : agents[k].name = agent_name } IN
    IF at = {} THEN NoAgent
    ELSE agents[CHOOSE k \in at : \A m \in at : m <= k]

\* _execute_action: prompt_map.get(action, input_content)
ActionPrompt(action, input_content) ==
    CASE action = "plan" ->
           "Create a detailed plan to solve the following task:\n\n" \o input_content
      [] action = "execute" ->
           "Implement a solution for the following task, based on this plan:\n\n"
               \o input_content
      [] action = "review" ->
           "Review the following solution critically:\n\n" \o input_content
      [] action = "code" ->
           "Write code to solve the following problem:\n\n" \o input_content
      [] action = "test" ->
           "Write test cases for the following code:\n\n" \o input_content
      [] action = "debug" ->
           "Debug the following code and fix any issues:\n\n" \o input_content
      [] action = "improve" ->
           "Improve the following solution:\n\n" \o input_content
      [] OTHER -> input_content

\* The condition of line 55.
NeedsRefinementLoose(action, result) ==
    action \in {"execute", "code", "improve"} /\ result.confidence <= CONFIDENCE_THRESHOLD

NeedsRefinement(action, result) ==
    action \in {"execute", "code", "improve"} /\ result.confidence < CONFIDENCE_THRESHOLD

\* next(agent for agent in agents if agent.type in types, None)
FirstOfType(types) ==
    LET at == { k \in 1..Len(agents) : agents[k].type \in types } IN
    IF at = {} THEN NoAgent
    ELSE agents[CHOOSE k \in at : \A m \in at : k <= m]

ReviewerOrPlanner == FirstOfType({"reviewer", "code_reviewer", "planner"})

Reviewer == FirstOfType({"reviewer", "code_reviewer"})

RefinerOrFirst ==
    LET found == FirstOfType({"executor", "code_generator", "hard_math_agent"})
    IN  IF found.found THEN found ELSE agents[1]

Refiner == FirstOfType({"executor", "code_generator", "hard_math_agent"})

ReviewPrompt(solution) ==
    "The following solution was generated with low confidence ("
        \o Fmt2f(solution.confidence) \o ", Reason: " \o solution.reasoning
        \o "). Please review it. If it is correct, respond with 'CORRECT'. "
        \o "Otherwise, provide specific, actionable feedback for improvement."
        \o "\n\nSolution:\n" \o solution.response

RefinePrompt(solution_text, feedback) ==
    "The previous solution was reviewed and needs improvement. Please generate "
        \o "a new, corrected solution based on the following feedback."
        \o "\n\nOriginal Solution:\n" \o solution_text
        \o "\n\nFeedback:\n" \o feedback
        \o "\n\nProvide only the complete, new solution."

\* current_solution_dict = await refiner.generate(refine_prompt)
RefinedSolutionKept(current, new) == current

RefinedSolution(current, new) == new

\* for i in range(MAX_REFINE_LOOPS): is there an iteration after iteration k?
HasNextIterationUnbounded(k) == TRUE

HasNextIterationOnce(k) == k + 1 < 1

HasNextIteration(k) == k + 1 < MAX_REFINE_LOOPS

\* The final output (lines 68-72).
FinalOutputOrLast(outs) ==
    LET final_output_source ==
            IF plan.final_output.type = "absent" THEN StrV("last_output")
            ELSE plan.final_output
    IN  IF Len(plan.steps) > 0
        THEN outs[Len(plan.steps) - 1].response
        ELSE GetResponse(outs, final_output_source)

FinalOutput(outs) ==
    LET final_output_source ==
            IF plan.final_output.type = "absent" THEN StrV("last_output")
            ELSE plan.final_output
    IN  IF IsStr(final_output_source, "last_output") /\ Len(plan.steps) > 0
        THEN outs[Len(plan.steps) - 1].response
        ELSE GetResponse(outs, final_output_source)

\* for i, step in enumerate(plan["steps"]): is the loop over before step idx?
LoopOver(idx) == idx >= Len(plan.steps)

\* The head of the loop body for step idx, up to the await of the step's
\* actor (lines 26-48), or the code after the loop (lines 67-75).
Advance(idx, outs) ==
    /\ i' = idx
    /\ IF LoopOver(idx)
       THEN /\ pc' = "done"
            /\ output' = StrV(FinalOutput(outs))
            /\ pending' = NoCall
            /\ error' = error
       ELSE LET step == plan.steps[idx + 1]
                agent == LookupAgent(step.agent)
            IN  IF ~agent.found
                THEN /\ pc' = "raised"
                     /\ error' = [exc |-> "ValueError",
                                  msg |-> "Agent '" \o step.agent \o "' not found"]
                     /\ pending' = NoCall
                     /\ output' = output
                ELSE /\ pc' = "action"
                     /\ pending' = [agent |-> agent.name, role |-> "actor",
                                    prompt |-> ActionPrompt(step.action,
                                        InputContent(step.input, idx, outs))]
                     /\ UNCHANGED <<error, output>>

\* final_result["steps"].append(entry)
PrependStep(recorded, entry) == <<entry>> \o recorded

SkipStep(recorded, entry) == recorded

AppendStep(recorded, entry) == Append(recorded, entry)

\* Lines 64-65, then the next iteration.
RecordAndAdvance(result_dict) ==
    LET step == plan.steps[i + 1]
        outs == [k \in DOMAIN step_outputs \cup {i} |->
                     IF k = i THEN result_dict ELSE step_outputs[k]]
    IN  /\ step_outputs' = outs
        /\ steps' = AppendStep(steps, [agent |-> step.agent,
                                       action |-> step.action,
                                       output |-> result_dict])
        /\ current_solution' = NoResult
        /\ loop_i' = 0
        /\ Advance(i + 1, outs)

\* An exception leaves execute_plan.
Raise(exc, detail) ==
    /\ pc' = "raised"
    /\ error' = [exc |-> exc, msg |-> detail]
    /\ pending' = NoCall
    /\ UNCHANGED <<i, step_outputs, steps, output, current_solution, loop_i>>

\* Lines 93-97: the review of the current solution is awaited.
AwaitReviewUnlessSure(solution, k) ==
    IF solution.confidence >= CONFIDENCE_THRESHOLD
    THEN RecordAndAdvance(solution)
    ELSE /\ pc' = "review"
         /\ pending' = [agent |-> Reviewer.name, role |-> "reviewer",
                        prompt |-> ReviewPrompt(solution)]
         /\ current_solution' = solution
         /\ loop_i' = k
         /\ UNCHANGED <<i, step_outputs, steps, output, error>>

AwaitReview(solution, k) ==
    /\ pc' = "review"
    /\ pending' = [agent |-> Reviewer.name, role |-> "reviewer",
                   prompt |-> ReviewPrompt(solution)]
    /\ current_solution' = solution
    /\ loop_i' = k
    /\ UNCHANGED <<i, step_outputs, steps, output, error>>

\* History of the step whose actor answered last: what the service did for
\* the actor (actor_outcome) and the result made of it (initial), whether line
\* 55 held (entered), the reviewer and refiner calls made for the step, the
\* first iteration whose review held the sentinel (accepted_at, 0 for none),
\* the refiner's last answer, and the reviewer's last feedback ("" for none).
NoTrace ==
    [step |-> -1, actor_outcome |-> "none", initial |-> NoResult,
     entered |-> FALSE, reviews |-> 0, refines |-> 0, accepted_at |-> 0,
     refiner_outcome |-> "none", last_refined |-> NoResult, feedback |-> ""]

SaysCorrect(text) ==
    Contains(Upper(Chars(text)), <<"C","O","R","R","E","C","T">>)

Heard(tr, feedback) ==
    IF tr.accepted_at = 0 /\ SaysCorrect(feedback)
    THEN [tr EXCEPT !.accepted_at = loop_i + 1, !.feedback = feedback]
    ELSE [tr EXCEPT !.feedback = feedback]

ExecutePlan ==
    /\ pc = "start"
    /\ Advance(0, step_outputs)
    /\ UNCHANGED <<plan, agents, task_description, step_outputs, steps,
                   current_solution, loop_i, trace>>
    /\ UNCHANGED gen
    /\ UNCHANGED <<engine_vars, task_vars, hub_vars>>

\* The step's actor answers (lines 48-65, 80-97).
ActionReturns ==
    /\ pc = "action"
    /\ \E o \in ActorOutcomes :
         LET r == Generate(o)
             action == plan.steps[i + 1].action
         IN  IF r.raised
             THEN Raise(r.exc, r.detail) /\ UNCHANGED trace
             ELSE LET entered == NeedsRefinement(action, r.value)
                      looping == entered /\ Reviewer.found /\ Refiner.found
                  IN  /\ trace' = [step |-> i, actor_outcome |-> o.kind,
                                   initial |-> r.value, entered |-> entered,
                                   reviews |-> IF looping THEN 1 ELSE 0,
                                   refines |-> 0, accepted_at |-> 0,
                                   refiner_outcome |-> "none",
                                   last_refined |-> NoResult, feedback |-> ""]
                      /\ IF looping
                         THEN AwaitReview(r.value, 0)
                         ELSE RecordAndAdvance(r.value)
    /\ UNCHANGED <<plan, agents, task_description>>
    /\ UNCHANGED gen
    /\ UNCHANGED <<engine_vars, task_vars, hub_vars>>

\* The reviewer answers (lines 97-108).
ReviewReturns ==
    /\ pc = "review"
    /\ \E o \in ReviewOutcomes :
         LET r == Generate(o) IN
         IF r.raised
         THEN Raise(r.exc, r.detail) /\ UNCHANGED trace
         ELSE LET feedback == r.value.response IN
              IF IsAccept(feedback)
              THEN /\ trace' = Heard(trace, feedback)
                   /\ RecordAndAdvance(current_solution)
              ELSE /\ trace' = [Heard(trace, feedback) EXCEPT !.refines = @ + 1]
                   /\ pc' = "refine"
                   /\ pending' = [agent |-> Refiner.name, role |-> "refiner",
                                  prompt |-> RefinePrompt(current_solution.response,
                                                          feedback)]
                   /\ UNCHANGED <<i, step_outputs, steps, output, error,
                                  current_solution, loop_i>>
    /\ UNCHANGED <<plan, agents, task_description>>
    /\ UNCHANGED gen
    /\ UNCHANGED <<engine_vars, task_vars, hub_vars>>

\* The refiner answers (lines 108-112, 93-97).
RefineReturns ==
    /\ pc = "refine"
    /\ \E o \in RefineOutcomes :
         LET r == Generate(o) IN
         IF r.raised
         THEN Raise(r.exc, r.detail) /\ UNCHANGED trace
         ELSE LET solution == RefinedSolution(current_solution, r.value) IN
              IF HasNextIteration(loop_i)
              THEN /\ trace' = [trace EXCEPT !.last_refined = r.value,
                                             !.refiner_outcome = o.kind,
                                             !.reviews = @ + 1]
                   /\ AwaitReview(solution, loop_i + 1)
              ELSE /\ trace' = [trace EXCEPT !.last_refined = r.value,
                                             !.refiner_outcome = o.kind]
                   /\ RecordAndAdvance(solution)
    /\ UNCHANGED <<plan, agents, task_description>>
    /\ UNCHANGED gen
    /\ UNCHANGED <<engine_vars, task_vars, hub_vars>>

-----------------------------------------------------------------------------
(* Parsed JSON and Python dicts                                            *)
(* A dict is its set of <<key, value>> items; a parsed JSON value is       *)
(* [type, items] with type "none" (nothing parsed), "dict" or "list" (the  *)
(* items of a list are keyed by the position, written as a string).        *)

JNone == [type |-> "none", items |-> {}]
JDict(items) == [type |-> "dict", items |-> items]
JList(items) == [type |-> "list", items |-> items]

DictKeys(d) == { p[1] : p \in d }
DictGet(d, k, default) ==
    IF k \in DictKeys(d) THEN (CHOOSE p \in d : p[1] = k)[2] ELSE default
DictSet(d, k, v) == { p \in d : p[1] # k } \cup { <<k, v>> }

\* bool(parsed): None, {} and [] are false.
Truthy(j) == j.type # "none" /\ j.items # {}

\* key in parsed: a key of a dict, an element of a list.
HasKey(j, k) ==
    IF j.type = "dict" THEN k \in DictKeys(j.items)
    ELSE \E p \in j.items : p[2] = StrV(k)

\* utils/json_utils.py: extract_and_parse_json, on the responses the model
\* draws: the object or array the text holds, None for any other text.
ParseJson(text) ==
    CASE text = "{\"system_prompt\": \"You plan step by step\"}" ->
           JDict({ <<"system_prompt", StrV("You plan step by step")>> })
      [] text = "Here it is: {\"system_prompt\": \"You solve problems and verify.\", \"role\": \"solver\"}" ->
           JDict({ <<"system_prompt", StrV("You solve problems and verify.")>>,
                   <<"role", StrV("solver")>> })
      [] text = "{\"system_prompt\": \"You plan in 20 chars\"}" ->
           JDict({ <<"system_prompt", StrV("You plan in 20 chars")>> })
      [] text = "{\"system_prompt\": \"\"}" ->
           JDict({ <<"system_prompt", StrV("")>> })
      [] text = "{\"system_prompt\": 42}" ->
           JDict({ <<"system_prompt", IntV(42)>> })
      [] text = "{\"role\": \"planner\"}" ->
           JDict({ <<"role", StrV("planner")>> })
      [] text = "{}" -> JDict({})
      [] text = "[\"system_prompt\"]" -> JList({ <<"0", StrV("system_prompt")>> })
      [] OTHER -> JNone

-----------------------------------------------------------------------------
(* core/agent_factory.py: the template store *)

Template(system_prompt) == JDict({ <<"system_prompt", StrV(system_prompt)>> })

\* _load_templates without a templates file.
DefaultTemplates ==
    { <<"planner", Template("You are a Planning Agent responsible for breaking down complex tasks into manageable steps.")>>,
      <<"executor", Template("You are an Execution Agent responsible for implementing solutions based on plans.")>>,
      <<"reviewer", Template("You are a Review Agent responsible for critically analyzing solutions for correctness and quality.")>>,
      <<"code_generator", Template("You are a Code Generation Agent specialized in writing clean, efficient, and correct code.")>>,
      <<"test_writer", Template("You are a Test Writing Agent specialized in creating comprehensive test cases for code.")>> }

NoFile == [exists |-> FALSE, data |-> {}]
File(data) == [exists |-> TRUE, data |-> data]

\* _load_templates: the file's map when the file exists, else the defaults.
LoadTemplates(file) == IF file.exists THEN file.data ELSE DefaultTemplates

\* save_agent_template: the store entry is replaced by the template; the
\* whole store is then written to the file.
merge_agent_template(templates, agent_type, template) ==
    LET old == DictGet(templates, agent_type, JDict({})) IN
    DictSet(templates, agent_type,
            JDict({ p \in old.items : p[1] \notin DictKeys(template.items) }
                      \cup template.items))

save_only_template(templates, agent_type, template) ==
    { <<agent_type, template>> }

save_executor_template(templates, agent_type, template) ==
    DictSet(templates, "executor", template)

save_agent_template(templates, agent_type, template) ==
    DictSet(templates, agent_type, template)

-----------------------------------------------------------------------------
(* core/evolution_engine.py: EvolutionEngine._evolve_agent_template *)

(* Bound of the model: the evolution attempts of one run *)
MaxAttempts == 2

AgentTypeChoices == { StrV("planner"), StrV("solver"), StrV(""), Absent }

\* What the generation service answers to the EvolutionAgent.
EvolutionOutcomes ==
    { Ok("{\"system_prompt\": \"You plan step by step\"}", EvalNone),
      Ok("Here it is: {\"system_prompt\": \"You solve problems and verify.\", \"role\": \"solver\"}",
         EvalDict(FloatV(90), "sure")),
      Ok("{\"system_prompt\": \"You plan in 20 chars\"}", EvalNone),
      Ok("{\"system_prompt\": \"\"}", EvalNone),
      Ok("{\"system_prompt\": 42}", EvalNone),
      Ok("{\"role\": \"planner\"}", EvalNone),
      Ok("{}", EvalNone),
      Ok("[\"system_prompt\"]", EvalNone),
      Ok("I cannot improve this prompt.", EvalNone),
      Raises("TimeoutException", "ReadTimeout") }

NoAttempt ==
    [agent_type |-> Absent, current_template |-> JNone, before |-> {},
     file_before |-> NoFile, response |-> "", improved |-> JNone,
     outcome |-> "none"]

\* not agent_type
IsFalsy(v) == v.type = "absent" \/ (v.type = "str" /\ v.val = "")

\* isinstance(new_prompt, str) and len(new_prompt) > 20
IsValidPromptAtLeast(new_prompt) ==
    new_prompt.type = "str" /\ Len(new_prompt.val) >= 20

IsValidPrompt(new_prompt) ==
    new_prompt.type = "str" /\ Len(new_prompt.val) > 20

\* Lines 134-150: up to the await of evolution_agent.generate.
AttemptStart(agent_type, templates, file) ==
    IF IsFalsy(agent_type)
    THEN [NoAttempt EXCEPT !.agent_type = agent_type,
                           !.before = templates,
                           !.file_before = file,
                           !.outcome = "no_agent_type"]
    ELSE [NoAttempt EXCEPT
            !.agent_type = agent_type,
            !.current_template =
                DictGet(templates, agent_type.val,
                        Template("You are a helpful "
                            \o agent_type.val \o " assistant.")),
            !.before = templates,
            !.file_before = file,
            !.outcome = "pending"]

EvolveAgentTemplate ==
    /\ evo_pc = "idle"
    /\ evo_count < MaxAttempts
    /\ evo_count' = evo_count + 1
    /\ \E agent_type \in AgentTypeChoices :
         /\ evo' = AttemptStart(agent_type, agent_templates, templates_file)
         /\ evo_pc' = IF IsFalsy(agent_type) THEN "idle" ELSE "improve"
    /\ UNCHANGED <<agent_templates, templates_file, st_pc, st, st_count>>
    /\ UNCHANGED commits
    /\ UNCHANGED <<created, flows>>
    /\ UNCHANGED <<collab_vars, task_vars, hub_vars>>

\* json.dump(self.agent_templates, f) (lines 157-162)
WriteTemplates(templates) == File(templates)

\* Lines 150-163: the EvolutionAgent answers o to the attempt rec.
AttemptAnswer(rec, templates, file, o) ==
    LET response_text == Generate(o).value.response
        improved_template == ParseJson(response_text)
        ended(outcome) == [rec EXCEPT !.response = response_text,
                                      !.improved = improved_template,
                                      !.outcome = outcome]
        kept(outcome) == [evo |-> ended(outcome), templates |-> templates,
                          file |-> file]
    IN  IF Truthy(improved_template) /\ HasKey(improved_template, "system_prompt")
        THEN IF improved_template.type = "list"
             THEN \* improved_template["system_prompt"] raises TypeError
                  kept("TypeError")
             ELSE IF IsValidPrompt(DictGet(improved_template.items,
                                           "system_prompt", Absent))
                  THEN LET saved == save_agent_template(templates,
                                        rec.agent_type.val, improved_template)
                       IN  [evo |-> ended("saved"), templates |-> saved,
                            file |-> WriteTemplates(saved)]
                  ELSE kept("too_short")
        ELSE kept("not_parsed")

\* The saves so far, with the one of the attempt that ended as rec.
Saved(saves, rec) ==
    IF rec.outcome = "saved"
    THEN Append(saves, [agent_type |-> rec.agent_type.val,
                        template |-> rec.improved])
    ELSE saves

ImproveReturns ==
    /\ evo_pc = "improve"
    /\ evo_pc' = "idle"
    /\ \E o \in EvolutionOutcomes :
         LET a == AttemptAnswer(evo, agent_templates, templates_file, o)
         IN  /\ evo' = a.evo
             /\ agent_templates' = a.templates
             /\ templates_file' = a.file
             /\ commits' = Saved(commits, a.evo)
    /\ UNCHANGED <<evo_count, st_pc, st, st_count>>
    /\ UNCHANGED <<created, flows>>
    /\ UNCHANGED <<collab_vars, task_vars, hub_vars>>

-----------------------------------------------------------------------------
(* core/evolution_engine.py: evolve_from_single_task and                   *)
(* evolve_from_experience_store                                            *)

(* Bound of the model: the evolution invocations of one run *)
MaxRuns == 1

(* Bound of the model: the experiences in the experience store *)
MaxStored == 4

\* An item of the improvement list: a dict with its "type" and
\* "specific_element_to_improve", or something that is not a dict.
Area(type, element) == [isdict |-> TRUE, type |-> type, element |-> element]
NotADict == [isdict |-> FALSE, type |-> Absent, element |-> Absent]
TemplateArea(agent_type) == Area(StrV("agent_template"), StrV(agent_type))

\* extract_and_parse_json on the answers to identify_improvements that the
\* model draws: the kind of the parsed value and its items.
ParseImprovements(text) ==
    CASE text = "{\"type\": \"agent_template\", \"specific_element_to_improve\": \"planner\", \"suggestions\": [\"Be concise\"]}" ->
           [type |-> "dict", areas |-> << TemplateArea("planner") >>]
      [] text = "[{\"type\": \"agent_template\", \"specific_element_to_improve\": \"planner\"}, {\"type\": \"agent_template\", \"specific_element_to_improve\": \"executor\"}]" ->
           [type |-> "list",
            areas |-> << TemplateArea("planner"), TemplateArea("executor") >>]
      [] text = "[{\"type\": \"collaboration_pattern\"}, \"note\", {\"type\": \"agent_template\", \"specific_element_to_improve\": \"solver\"}]" ->
           [type |-> "list",
            areas |-> << Area(StrV("collaboration_pattern"), Absent), NotADict,
                         TemplateArea("solver") >>]
      [] text = "[{\"type\": \"agent_template\"}]" ->
           \* the object between the first { and the last } is parsed
           [type |-> "dict", areas |-> << Area(StrV("agent_template"), Absent) >>]
      [] text = "[]" -> [type |-> "list", areas |-> << >>]
      [] OTHER -> [type |-> "none", areas |-> << >>]

\* What the generation service answers to identify_improvements.
IdentifyOutcomes ==
    { Ok("{\"type\": \"agent_template\", \"specific_element_to_improve\": \"planner\", \"suggestions\": [\"Be concise\"]}", EvalNone),
      Ok("[{\"type\": \"agent_template\", \"specific_element_to_improve\": \"planner\"}, {\"type\": \"agent_template\", \"specific_element_to_improve\": \"executor\"}]", EvalNone),
      Ok("[{\"type\": \"collaboration_pattern\"}, \"note\", {\"type\": \"agent_template\", \"specific_element_to_improve\": \"solver\"}]", EvalNone),
      Ok("[{\"type\": \"agent_template\"}]", EvalNone),
      Ok("[]", EvalNone),
      Ok("No improvement is needed.", EvalDict(FloatV(80), "sure")),
      Raises("TimeoutException", "ReadTimeout") }

\* What the generation service answers to improve_agent_template within an
\* invocation.
TemplateOutcomes ==
    { Ok("{\"system_prompt\": \"You plan step by step\"}", EvalNone),
      Ok("Here it is: {\"system_prompt\": \"You solve problems and verify.\", \"role\": \"solver\"}",
         EvalDict(FloatV(90), "sure")),
      Ok("{\"system_prompt\": \"You plan in 20 chars\"}", EvalNone),
      Ok("[\"system_prompt\"]", EvalNone),
      Raises("TimeoutException", "ReadTimeout") }

\* task_analysis.get("task_type", "executor")
TaskTypeChoices == { Absent, StrV("math") }
TaskTypeOrExecutor(task_type) ==
    IF task_type.type = "absent" THEN "executor" ELSE task_type.val

\* _identify_improvement_areas, lines 112-127: the list for the answer.
ImprovementAreas(response_text, task_type) ==
    LET parsed_json == ParseImprovements(response_text)
    IN  IF parsed_json.type # "none" /\ parsed_json.areas # << >>
        THEN parsed_json.areas
        ELSE << TemplateArea(TaskTypeOrExecutor(task_type)) >>

NoRun ==
    [op |-> "none", task_type |-> Absent, stored |-> 0, areas |-> << >>,
     k |-> 0, calls |-> << >>, saved |-> << >>, before |-> {},
     file_before |-> NoFile, committed |-> {}, error |-> "none"]

\* Lines 40-45 and 134-136: the item is one that reaches the await of
\* _evolve_agent_template.
ReachesAwait(area) ==
    /\ area.isdict
    /\ area.type = StrV("agent_template")
    /\ ~IsFalsy(area.element)

\* The first item from position k on that reaches the await, or one past
\* the list.
RECURSIVE NextAwait(_, _)
NextAwait(areas, k) ==
    IF k > Len(areas) \/ ReachesAwait(areas[k]) THEN k
    ELSE NextAwait(areas, k + 1)

\* The loop of lines 40-54 from item k on, after an attempt that left rec:
\* up to the next await of evolution_agent.generate, or to the return.
Proceed(run, k, rec, templates, file) ==
    LET n == NextAwait(run.areas, k)
    IN  IF n > Len(run.areas)
        THEN /\ st_pc' = "done"
             /\ st' = [run EXCEPT !.k = n]
             /\ evo' = rec
        ELSE /\ st_pc' = "improve"
             /\ st' = [run EXCEPT !.k = n, !.calls = Append(@, "improve")]
             /\ evo' = AttemptStart(run.areas[n].element, templates, file)

AtRest == st_pc \in {"idle", "done", "raised", "cancelled"} /\ evo_pc = "idle"

\* evolve_from_single_task, lines 35-36 and 104-110: up to the await of
\* evolution_agent.generate in _identify_improvement_areas.
EvolveFromSingleTask ==
    /\ AtRest
    /\ st_count < MaxRuns
    /\ st_count' = st_count + 1
    /\ \E task_type \in TaskTypeChoices :
         st' = [NoRun EXCEPT !.op = "single_task",
                             !.task_type = task_type,
                             !.calls = << "identify" >>,
                             !.before = agent_templates,
                             !.file_before = templates_file,
                             !.committed = agent_templates]
    /\ st_pc' = "identify"
    /\ UNCHANGED <<agent_templates, templates_file, evo_pc, evo, evo_count>>
    /\ UNCHANGED commits
    /\ UNCHANGED <<created, flows>>
    /\ UNCHANGED <<collab_vars, task_vars, hub_vars>>

\* Lines 110-127 and 40-54: the EvolutionAgent answers identify_improvements.
IdentifyReturns ==
    /\ st_pc = "identify"
    /\ \E o \in IdentifyOutcomes :
         LET improvement_areas ==
                 ImprovementAreas(Generate(o).value.response, st.task_type)
         IN  Proceed([st EXCEPT !.areas = improvement_areas], 1, evo,
                     agent_templates, templates_file)
    /\ UNCHANGED <<agent_templates, templates_file, evo_pc, evo_count, st_count>>
    /\ UNCHANGED commits
    /\ UNCHANGED <<created, flows>>
    /\ UNCHANGED <<collab_vars, task_vars, hub_vars>>

\* Lines 150-163 and 40-54: the EvolutionAgent answers improve_agent_template
\* for the item st.k.
TemplateReturns ==
    /\ st_pc = "improve"
    /\ \E o \in TemplateOutcomes :
         LET a == AttemptAnswer(evo, agent_templates, templates_file, o)
             run == [st EXCEPT
                       !.saved = IF a.evo.outcome = "saved"
                                 THEN Append(@, evo.agent_type.val) ELSE @,
                       !.committed = a.templates]
         IN  /\ agent_templates' = a.templates
             /\ templates_file' = a.file
             /\ commits' = Saved(commits, a.evo)
             /\ IF a.evo.outcome = "TypeError"
                THEN /\ st_pc' = "raised"
                     /\ st' = [run EXCEPT !.error = "TypeError"]
                     /\ evo' = a.evo
                ELSE Proceed(run, st.k + 1, a.evo, a.templates, a.file)
    /\ UNCHANGED <<evo_pc, evo_count, st_count>>
    /\ UNCHANGED <<created, flows>>
    /\ UNCHANGED <<collab_vars, task_vars, hub_vars>>

\* evolve_from_experience_store, line 61: __init__ (lines 17-26) leaves
\* self.experience_store unset, so reading it raises AttributeError whatever
\* the store holds.
EvolveFromExperienceStore ==
    /\ AtRest
    /\ st_count < MaxRuns
    /\ st_count' = st_count + 1
    /\ \E stored \in 0..MaxStored :
         st' = [NoRun EXCEPT !.op = "experience_store",
                             !.stored = stored,
                             !.before = agent_templates,
                             !.file_before = templates_file,
                             !.committed = agent_templates,
                             !.error = "AttributeError"]
    /\ st_pc' = "raised"
    /\ UNCHANGED <<agent_templates, templates_file, evo_pc, evo, evo_count>>
    /\ UNCHANGED commits
    /\ UNCHANGED <<created, flows>>
    /\ UNCHANGED <<collab_vars, task_vars, hub_vars>>

\* The task of the invocation is cancelled while it awaits
\* evolution_agent.generate: CancelledError is raised at the await and no
\* except clause of generate or of the engine catches it.
CancelInsideSave ==
    /\ st_pc = "improve"
    /\ st_pc' = "cancelled"
    /\ st' = [st EXCEPT !.error = "CancelledError"]
    /\ evo' = [evo EXCEPT !.outcome = "cancelled"]
    /\ agent_templates' =
           save_agent_template(agent_templates, evo.agent_type.val,
                               Template("You plan step by step"))
    /\ UNCHANGED <<templates_file, evo_pc, evo_count, st_count>>
    /\ UNCHANGED commits
    /\ UNCHANGED <<created, flows>>
    /\ UNCHANGED <<collab_vars, task_vars, hub_vars>>

Cancel ==
    /\ st_pc \in {"identify", "improve"}
    /\ st_pc' = "cancelled"
    /\ st' = [st EXCEPT !.error = "CancelledError"]
    /\ evo' = IF st_pc = "improve" THEN [evo EXCEPT !.outcome = "cancelled"]
              ELSE evo
    /\ UNCHANGED <<agent_templates, templates_file, evo_pc, evo_count, st_count>>
    /\ UNCHANGED commits
    /\ UNCHANGED <<created, flows>>
    /\ UNCHANGED <<collab_vars, task_vars, hub_vars>>


-----------------------------------------------------------------------------
(* core/agent_factory.py: create_agents; evolution attempts side by side *)

\* The agent specifications the model draws: a category whose agents are
\* instances of Agent, with or without a custom_prompt.
AgentSpec(type, custom_prompt) == [type |-> type, custom_prompt |-> custom_prompt]
AgentSpecs ==
    { AgentSpec(type, custom_prompt) :
        type \in {"planner", "solver"},
        custom_prompt \in { Absent, StrV("You are a planning agent.") } }

NoneCreated ==
    [made |-> FALSE, type |-> "", system_prompt |-> Absent, committed |-> Absent]

\* The template that was saved last for the category, Absent for none.
RECURSIVE LastSaved(_, _, _)
LastSaved(saves, type, k) ==
    IF k = 0 THEN Absent
    ELSE IF saves[k].agent_type = type
         THEN DictGet(saves[k].template.items, "system_prompt", Absent)
         ELSE LastSaved(saves, type, k - 1)

\* Lines 65-69: spec.get("custom_prompt", template["system_prompt"])
SystemPrompt(templates, spec) ==
    IF spec.custom_prompt.type # "absent" THEN spec.custom_prompt
    ELSE DictGet(DictGet(templates, spec.type,
                         Template("You are a helpful assistant agent.")).items,
                 "system_prompt", Absent)

\* create_agents (lines 55-108) for one specification.
CreateAgents ==
    /\ \E spec \in AgentSpecs :
         created' = [made |-> TRUE, type |-> spec.type,
                     system_prompt |-> SystemPrompt(agent_templates, spec),
                     committed |-> LastSaved(commits, spec.type, Len(commits))]
    /\ UNCHANGED <<agent_templates, templates_file, evo_pc, evo, evo_count,
                   st_pc, st, st_count, flows, commits>>
    /\ UNCHANGED <<collab_vars, task_vars, hub_vars>>

(* Bound of the model: the evolution attempts that run side by side *)
MaxFlows == 2

NoFlow == [pc |-> "idle", rec |-> NoAttempt, overlapped |-> FALSE]

FlowTypes == { StrV("planner"), StrV("solver") }

\* A task starts _evolve_agent_template (lines 134-150) while others may be
\* awaiting the EvolutionAgent.
StartFlow ==
    /\ \E f \in 1..MaxFlows, agent_type \in FlowTypes :
         /\ flows[f].pc = "idle"
         /\ flows' = [flows EXCEPT ![f] =
                        [pc |-> "improve",
                         rec |-> AttemptStart(agent_type, agent_templates,
                                              templates_file),
                         overlapped |-> \E g \in 1..MaxFlows :
                                            flows[g].pc = "improve"]]
    /\ UNCHANGED <<agent_templates, templates_file, evo_pc, evo, evo_count,
                   st_pc, st, st_count, created, commits>>
    /\ UNCHANGED <<collab_vars, task_vars, hub_vars>>

\* The EvolutionAgent answers one of the attempts (lines 150-163).
FlowReturns ==
    /\ \E f \in 1..MaxFlows, o \in TemplateOutcomes :
         /\ flows[f].pc = "improve"
         /\ LET a == AttemptAnswer(flows[f].rec, agent_templates, templates_file, o)
            IN  /\ agent_templates' = a.templates
                /\ templates_file' = a.file
                /\ commits' = Saved(commits, a.evo)
                /\ flows' = [flows EXCEPT ![f].pc = "ended", ![f].rec = a.evo]
    /\ UNCHANGED <<evo_pc, evo, evo_count, st_pc, st, st_count, created>>
    /\ UNCHANGED <<collab_vars, task_vars, hub_vars>>

\* A factory just constructed without a templates file, an engine at rest.
EngineFresh ==
    /\ templates_file = NoFile
    /\ agent_templates = LoadTemplates(templates_file)
    /\ evo_pc = "idle"
    /\ evo = NoAttempt
    /\ evo_count = 0
    /\ st_pc = "idle"
    /\ st = NoRun
    /\ st_count = 0
    /\ created = NoneCreated
    /\ flows = [f \in 1..MaxFlows |-> NoFlow]
    /\ commits = << >>

-----------------------------------------------------------------------------
(* memory/experience_hub.py: the networkx.DiGraph of the ExperienceHub     *)
(* A graph is [nodes, attrs, edges]: the node ids in insertion order, the  *)
(* dict of each node's attribute dict, and the set of directed edges.      *)

EmptyGraph == [nodes |-> <<>>, attrs |-> {}, edges |-> {}]

NodeSet(g) == { g.nodes[k] : k \in 1..Len(g.nodes) }

\* graph.has_node(n)
HasNode(g, n) == n \in NodeSet(g)

\* graph.nodes[n]
NodeAttrs(g, n) == DictGet(g.attrs, n, {})

\* graph.nodes[n].get(key, default)
Attr(g, n, key, default) == DictGet(NodeAttrs(g, n), key, default)

\* dict.update(items)
DictUpdate(d, items) ==
    { p \in d : p[1] \notin DictKeys(items) } \cup items

\* graph.add_node(n, **items): a new node is appended; the attributes given
\* are set on the node, new or not.
AddNode(g, n, items) ==
    [nodes |-> IF HasNode(g, n) THEN g.nodes ELSE Append(g.nodes, n),
     attrs |-> DictSet(g.attrs, n, DictUpdate(NodeAttrs(g, n), items)),
     edges |-> g.edges]

\* graph.add_edge(u, v): u, then v, becomes a node when it is none.
AddEdgeBetweenNodes(g, u, v) ==
    IF HasNode(g, u) /\ HasNode(g, v)
    THEN [g EXCEPT !.edges = @ \cup { <<u, v>> }]
    ELSE g

AddEdge(g, u, v) ==
    LET gu == IF HasNode(g, u) THEN g ELSE AddNode(g, u, {})
        gv == IF HasNode(gu, v) THEN gu ELSE AddNode(gu, v, {})
    IN  [gv EXCEPT !.edges = @ \cup { <<u, v>> }]

\* graph.successors(n)
Successors(g, n) == { e[2] : e \in { d \in g.edges : d[1] = n } }

\* graph.nodes[n][key] += 1
Decrement(g, n, key) ==
    [g EXCEPT !.attrs =
        DictSet(@, n, DictSet(NodeAttrs(g, n), key,
                              IntV(Attr(g, n, key, IntV(0)).val - 1)))]

Increment(g, n, key) ==
    [g EXCEPT !.attrs =
        DictSet(@, n, DictSet(NodeAttrs(g, n), key,
                              IntV(Attr(g, n, key, IntV(0)).val + 1)))]

\* _save_graph: nx.node_link_data(self.graph), written to the file.
NodeLinkData(g) ==
    [directed |-> TRUE, multigraph |-> FALSE,
     nodes |-> [k \in 1..Len(g.nodes) |->
                    [id |-> g.nodes[k], items |-> NodeAttrs(g, g.nodes[k])]],
     links |-> { [source |-> e[1], target |-> e[2]] : e \in g.edges }]

NoDbFile == [exists |-> FALSE, data |-> NodeLinkData(EmptyGraph)]
DbFile(g) == [exists |-> TRUE, data |-> NodeLinkData(g)]

\* nx.node_link_graph(data): the nodes are added in the order of the list,
\* each with its attributes, then the links; the data says directed.
RECURSIVE AddNodesFrom(_, _, _)
AddNodesFrom(g, nodes, k) ==
    IF k > Len(nodes) THEN g
    ELSE AddNodesFrom(AddNode(g, nodes[k].id, nodes[k].items), nodes, k + 1)

NodeLinkGraphUndirected(data) ==
    [AddNodesFrom(EmptyGraph, data.nodes, 1) EXCEPT
        !.edges = { <<l.source, l.target>> : l \in data.links }
                    \cup { <<l.target, l.source>> : l \in data.links }]

NodeLinkGraph(data) ==
    [AddNodesFrom(EmptyGraph, data.nodes, 1) EXCEPT
        !.edges = IF data.directed
                  THEN { <<l.source, l.target>> : l \in data.links }
                  ELSE { <<l.source, l.target>> : l \in data.links }
                           \cup { <<l.target, l.source>> : l \in data.links }]

\* _load_graph (lines 14-21)
LoadGraph(file) == IF file.exists THEN NodeLinkGraph(file.data) ELSE EmptyGraph

-----------------------------------------------------------------------------
(* The texts, plans and arguments the model draws for the ExperienceHub *)

\* str.strip() on the takeaways of the model.
StripNothing(s) == s

Strip(s) == IF s = "  " THEN "" ELSE s

\* hash(s) of a str: a number that depends on the text and on the hash seed
\* that the process draws when it starts (PYTHONHASHSEED is not set), written
\* in decimal by the f-string.
HashSeed == "7"
HashSeeds == {"7", "8"}
TextNumber(s) ==
    CASE s = "Check the units" -> "1"
      [] s = "Verify the base case" -> "2"
      [] s = "  " -> "3"
      [] s = "  " -> "3"
      [] s = "{\"final_output\": \"last_output\", \"steps\": [\"plan\", \"execute\"]}" -> "4"
      [] s = "{\"final_output\": \"last_output\", \"steps\": [\"execute\"]}" -> "5"
      [] OTHER -> "0"
PyHash(s) == hash_seed \o TextNumber(s)

\* A collaboration plan as a dict: its keys in insertion order and its items.
PlanDict(order, plan_steps) ==
    [type |-> "dict",
     val |-> [order |-> order,
              items |-> { <<"steps", plan_steps>>, <<"final_output", "last_output">> }]]

\* json.dumps(plan, sort_keys=True): the keys are written in sorted order,
\* whatever their insertion order.
JsonDumpsSorted(p) ==
    "{\"final_output\": \"" \o DictGet(p.val.items, "final_output", "") \o
    "\", \"steps\": " \o DictGet(p.val.items, "steps", "") \o "}"

\* == on two plan dicts: the same items, in whatever order.
SamePlan(p, q) == p.type = q.type /\ p.val.items = q.val.items

TaskAnalysis(task_type, knowledge_domains) ==
    [task_type |-> task_type, knowledge_domains |-> knowledge_domains]

TaskAnalysisChoices ==
    { TaskAnalysis(StrV("math"), <<"algebra">>),
      TaskAnalysis(StrV("math"), <<>>),
      TaskAnalysis(Absent, <<>>) }

Learnings(abstract_takeaways) ==
    [type |-> "dict", abstract_takeaways |-> abstract_takeaways]

LearningsChoices ==
    { [type |-> "absent", abstract_takeaways |-> <<>>],
      Learnings(<<>>),
      Learnings(<<"  ">>),
      Learnings(<<"Check the units">>),
      Learnings(<<"Verify the base case", "Check the units">>),
      Learnings(<<"  ", "Check the units", "Check the units">>) }

\* What a run ended with: evaluation.get('score'), in hundredths (Absent
\* when the key is missing), and result['context'].get('collaboration_plan').
Outcome(score, p) == [score |-> score, plan |-> p]

OutcomeChoices ==
    { Outcome(FloatV(90),
              PlanDict(<<"steps", "final_output">>, "[\"plan\", \"execute\"]")),
      Outcome(FloatV(80),
              PlanDict(<<"final_output", "steps">>, "[\"plan\", \"execute\"]")),
      Outcome(FloatV(80),
              PlanDict(<<"steps", "final_output">>, "[\"execute\"]")),
      Outcome(FloatV(79),
              PlanDict(<<"steps", "final_output">>, "[\"plan\", \"execute\"]")),
      Outcome(FloatV(90), Absent),
      Outcome(Absent, Absent) }

-----------------------------------------------------------------------------
(* memory/experience_hub.py: ExperienceHub *)

(* Bound of the model: the ExperienceHub calls of one run *)
MaxCalls == 2

\* task_analysis.get('task_type', 'generic')
ProblemType(task_analysis) ==
    IF task_analysis.task_type.type = "absent" THEN "generic"
    ELSE task_analysis.task_type.val

ProblemNode(task_analysis) == "problem_" \o ProblemType(task_analysis)
ConceptNode(concept) == "concept_" \o concept
HeuristicId(takeaway) == "heuristic_" \o PyHash(takeaway)
PatternId(p) == "pattern_" \o PyHash(JsonDumpsSorted(p))

\* positive_count - negative_count, each 0 when the node has none.
Score(g, hid) ==
    Attr(g, hid, "positive_count", IntV(0)).val
        - Attr(g, hid, "negative_count", IntV(0)).val

\* Lines 73-82: the heuristic successors of the source nodes, as a set.
RelevantHeuristicIds(g, task_analysis) ==
    LET concepts == task_analysis.knowledge_domains
        source_nodes == { ProblemNode(task_analysis) }
                            \cup { ConceptNode(concepts[k]) : k \in 1..Len(concepts) }
    IN  { s \in UNION { Successors(g, n) : n \in { m \in source_nodes : HasNode(g, m) } } :
            Attr(g, s, "type", Absent) = StrV("heuristic") }

\* list(a set): its elements once each, in the order the set iterates,
\* which depends on the hashes of the ids and is any order.
ListsOf(S) ==
    { s \in [1..Cardinality(S) -> S] : \A a, b \in DOMAIN s : s[a] = s[b] => a = b }

\* sorted(ids, key=score, reverse=True): a stable sort keeps equal keys in
\* the order of the list it is given.
SortedByScore(g, ids) ==
    { s \in ListsOf(ids) :
        \A a, b \in DOMAIN s : a < b => Score(g, s[a]) >= Score(g, s[b]) }

\* Lines 68-92: every list of texts the call can return.
retrieve_relevant_heuristics(g, task_analysis) ==
    { [k \in DOMAIN s |-> Attr(g, s[k], "text", Absent).val] :
        s \in SortedByScore(g, RelevantHeuristicIds(g, task_analysis)) }

\* Line 105: "successful_patterns": []
SuccessfulPatterns(g, task_analysis) == { <<>> }

\* Lines 40-44: the heuristic node of one takeaway.
StoreHeuristicAnew(g, heuristic_id, takeaway) ==
    AddNode(g, heuristic_id,
            { <<"type", StrV("heuristic")>>, <<"text", StrV(takeaway)>>,
              <<"positive_count", IntV(0)>>, <<"negative_count", IntV(1)>> })

StoreHeuristic(g, heuristic_id, takeaway) ==
    IF ~HasNode(g, heuristic_id)
    THEN AddNode(g, heuristic_id,
                 { <<"type", StrV("heuristic")>>, <<"text", StrV(takeaway)>>,
                   <<"positive_count", IntV(0)>>, <<"negative_count", IntV(1)>> })
    ELSE Increment(g, heuristic_id, "negative_count")

\* Lines 47-49: the edges from the problem type and from each concept.
RECURSIVE LinkConcepts(_, _, _, _)
LinkConcepts(g, concepts, k, heuristic_id) ==
    IF k > Len(concepts) THEN g
    ELSE LinkConcepts(AddEdge(g, ConceptNode(concepts[k]), heuristic_id),
                      concepts, k + 1, heuristic_id)

\* Lines 37-49: the loop over the takeaways, from the k-th on.
RECURSIVE StoreTakeaways(_, _, _, _)
StoreTakeaways(g, task_analysis, takeaways, k) ==
    IF k > Len(takeaways) THEN g
    ELSE IF Strip(takeaways[k]) = ""
         THEN StoreTakeaways(g, task_analysis, takeaways, k + 1)
         ELSE LET heuristic_id == HeuristicId(takeaways[k])
                  stored == StoreHeuristic(g, heuristic_id, takeaways[k])
                  linked == AddEdge(stored, ProblemNode(task_analysis), heuristic_id)
              IN  StoreTakeaways(
                      LinkConcepts(linked, task_analysis.knowledge_domains, 1,
                                   heuristic_id),
                      task_analysis, takeaways, k + 1)

\* Lines 61-63: the loop over what retrieve_relevant_heuristics returned,
\* from the k-th on; graph.nodes[n]['positive_count'] raises KeyError for a
\* node without the attribute.
RECURSIVE LinkHeuristics(_, _, _, _)
LinkHeuristics(g, heuristics, k, pattern_id) ==
    IF k > Len(heuristics) THEN [graph |-> g, raised |-> "none"]
    ELSE LET heuristic_id == heuristics[k]
             linked == AddEdge(g, heuristic_id, pattern_id)
         IN  IF "positive_count" \in DictKeys(NodeAttrs(linked, heuristic_id))
             THEN LinkHeuristics(Increment(linked, heuristic_id, "positive_count"),
                                 heuristics, k + 1, pattern_id)
             ELSE [graph |-> linked, raised |-> "KeyError"]

IsSuccessStrict(score) == score.type = "float" /\ score.val > 80

\* evaluation.get('score', 0) >= 0.8
IsSuccess(score) == score.type = "float" /\ score.val >= 80

add_experience_both(g, task_analysis, p, score, learnings, heuristics) ==
    LET learnt == IF learnings.type = "dict" /\ Len(learnings.abstract_takeaways) > 0
                  THEN StoreTakeaways(g, task_analysis,
                                      learnings.abstract_takeaways, 1)
                  ELSE g
    IN  IF IsSuccess(score) /\ p.type = "dict"
        THEN LinkHeuristics(
                 AddEdge(AddNode(learnt, PatternId(p),
                                 { <<"type", StrV("successful_pattern")>>,
                                   <<"plan", p>> }),
                         ProblemNode(task_analysis), PatternId(p)),
                 heuristics, 1, PatternId(p))
        ELSE [graph |-> learnt, raised |-> "none"]

\* Lines 32-64: the graph the call leaves and the exception it raises, with
\* heuristics the list that line 61 gets from retrieve_relevant_heuristics.
add_experience(g, task_analysis, p, score, learnings, heuristics) ==
    IF learnings.type = "dict" /\ Len(learnings.abstract_takeaways) > 0
    THEN [graph |-> StoreTakeaways(g, task_analysis,
                                   learnings.abstract_takeaways, 1),
          raised |-> "none"]
    ELSE IF IsSuccess(score) /\ p.type = "dict"
         THEN LET pattern_id == PatternId(p)
                  noted == AddNode(g, pattern_id,
                               { <<"type", StrV("successful_pattern")>>,
                                 <<"plan", p>> })
                  linked == AddEdge(noted, ProblemNode(task_analysis), pattern_id)
              IN  LinkHeuristics(linked, heuristics, 1, pattern_id)
         ELSE [graph |-> g, raised |-> "none"]

NoHubCall ==
    [op |-> "none", task_analysis |-> TaskAnalysis(Absent, <<>>), plan |-> Absent,
     score |-> Absent, learnings |-> [type |-> "absent", abstract_takeaways |-> <<>>],
     raised |-> "none", heuristics |-> <<>>, patterns |-> <<>>]

\* add_experience (lines 30-66): the graph is saved when no exception left
\* the call before line 66.
AddExperience ==
    /\ hub_count < MaxCalls
    /\ hub_count' = hub_count + 1
    /\ \E task_analysis \in TaskAnalysisChoices, outcome \in OutcomeChoices,
          learnings \in LearningsChoices :
         \E heuristics \in retrieve_relevant_heuristics(graph, task_analysis) :
            LET r == add_experience(graph, task_analysis, outcome.plan,
                                    outcome.score, learnings, heuristics)
            IN  /\ graph' = r.graph
                /\ db_file' = IF r.raised = "none" THEN DbFile(r.graph) ELSE db_file
                /\ hub_saved' = IF r.raised = "none" THEN r.graph ELSE hub_saved
                /\ hub_prev' = graph
                /\ hub_call' = [NoHubCall EXCEPT !.op = "add_experience",
                                                 !.task_analysis = task_analysis,
                                                 !.plan = outcome.plan,
                                                 !.score = outcome.score,
                                                 !.learnings = learnings,
                                                 !.raised = r.raised]
    /\ UNCHANGED <<hash_seed, hub_restarts>>
    /\ UNCHANGED <<collab_vars, engine_vars, task_vars>>

RetrievalChoices ==
    TaskAnalysisChoices \cup { TaskAnalysis(StrV("code"), <<"graphs">>) }

RetrieveCreatingProblemNode ==
    /\ hub_count < MaxCalls
    /\ hub_count' = hub_count + 1
    /\ \E task_analysis \in RetrievalChoices :
         /\ hub_call' = [NoHubCall EXCEPT !.op = "retrieve_relevant_heuristics",
                                          !.task_analysis = task_analysis]
         /\ graph' = IF HasNode(graph, ProblemNode(task_analysis)) THEN graph
                     ELSE AddNode(graph, ProblemNode(task_analysis), {})
    /\ hub_prev' = graph
    /\ UNCHANGED <<db_file, hash_seed, hub_saved, hub_restarts>>
    /\ UNCHANGED <<collab_vars, engine_vars, task_vars>>

\* retrieve_relevant_heuristics (lines 68-92)
RetrieveRelevantHeuristics ==
    /\ hub_count < MaxCalls
    /\ hub_count' = hub_count + 1
    /\ \E task_analysis \in RetrievalChoices :
         \E heuristics \in retrieve_relevant_heuristics(graph, task_analysis) :
            hub_call' = [NoHubCall EXCEPT !.op = "retrieve_relevant_heuristics",
                                         !.task_analysis = task_analysis,
                                         !.heuristics = heuristics]
    /\ hub_prev' = graph
    /\ UNCHANGED <<graph, db_file, hash_seed, hub_saved, hub_restarts>>
    /\ UNCHANGED <<collab_vars, engine_vars, task_vars>>

\* retrieve_relevant_experience (lines 94-106)
RetrieveRelevantExperience ==
    /\ hub_count < MaxCalls
    /\ hub_count' = hub_count + 1
    /\ \E task_analysis \in RetrievalChoices :
         \E heuristics \in retrieve_relevant_heuristics(graph, task_analysis),
            patterns \in SuccessfulPatterns(graph, task_analysis) :
            hub_call' = [NoHubCall EXCEPT !.op = "retrieve_relevant_experience",
                                         !.task_analysis = task_analysis,
                                         !.heuristics = heuristics,
                                         !.patterns = patterns]
    /\ hub_prev' = graph
    /\ UNCHANGED <<graph, db_file, hash_seed, hub_saved, hub_restarts>>
    /\ UNCHANGED <<collab_vars, engine_vars, task_vars>>

\* ExperienceHub() where memory/experience_graph.json does not exist.
HubFresh ==
    /\ graph = EmptyGraph
    /\ db_file = NoDbFile
    /\ hub_prev = EmptyGraph
    /\ hub_call = NoHubCall
    /\ hub_count = 0
    /\ hash_seed = HashSeed
    /\ hub_saved = EmptyGraph
    /\ hub_restarts = 0

(* Bound of the model: the processes started after the first *)
MaxRestarts == 1

\* A new process constructs ExperienceHub() (lines 9-21): it draws its hash
\* seed and loads the graph from the file.
Restart ==
    /\ hub_restarts < MaxRestarts
    /\ hub_restarts' = hub_restarts + 1
    /\ hash_seed' \in HashSeeds
    /\ graph' = LoadGraph(db_file)
    /\ hub_prev' = graph
    /\ hub_call' = [NoHubCall EXCEPT !.op = "load"]
    /\ UNCHANGED <<db_file, hub_saved, hub_count>>
    /\ UNCHANGED <<collab_vars, engine_vars, task_vars>>

-----------------------------------------------------------------------------
(* core/meta_agent.py: MetaAgent.handle_task *)

(* Bound of the model: the handle_task calls of one run *)
MaxTasks == 2

\* A task description: its text, whether it holds the heading
\* "### Root Cause Analysis of the Error", and the text between
\* "- **Original Problem:**" and "- **Your Incorrect Solution" when it has both.
Task(text, is_learning_task, original_problem) ==
    [text |-> text, is_learning_task |-> is_learning_task,
     original_problem |-> original_problem]

TaskChoices ==
    { Task("What is 2 + 2?", FALSE, Absent),
      Task("Reverse a list in place.", FALSE, Absent),
      Task("Learn from the failed attempt on 2 + 2", TRUE, StrV("What is 2 + 2?")),
      Task("Learn from the failed attempt", TRUE, Absent) }

\* What the generation service answers to the JsonGenerator.
JsonOutcomes ==
    { Ok("{\"task_type\": \"math\", \"knowledge_domains\": [\"algebra\"]}", EvalNone),
      Ok("{\"task_type\": \"math\"}", EvalDict(FloatV(90), "sure")),
      Ok("The task is a math task.", EvalNone),
      Raises("TimeoutException", "ReadTimeout"),
      Raises("RuntimeError", "bad response"),
      Raises("ConnectError", "refused") }

NoTask ==
    [task |-> Task("", FALSE, Absent), allow_evolution |-> FALSE,
     prompt |-> "", response_text |-> NoResult, error |-> NoError,
     returned |-> FALSE, hub_updated |-> FALSE, evolution_ran |-> FALSE]

\* _analyze_task, lines 128-135: the description the analysis prompt holds.
AnalyzedDescription(task) ==
    IF task.is_learning_task /\ task.original_problem.type = "str"
    THEN task.original_problem.val
    ELSE task.text

\* re.search(pattern, response_text): a str is searched, any other object
\* raises TypeError.
ReSearch(response_text) ==
    IF response_text.type = "str"
    THEN Returned(response_text)
    ELSE Propagated("TypeError", "expected string or bytes-like object")

\* A result dict of Agent.generate as a Python object.
DictV(result) == [type |-> "dict", val |-> result]

\* Lines 50-54, 127-136, 36-37: up to the await of the JsonGenerator.
HandleTask ==
    /\ ht_pc = "idle"
    /\ ht_count < MaxTasks
    /\ ht_count' = ht_count + 1
    /\ \E task \in TaskChoices, allow_evolution \in BOOLEAN :
         ht' = [NoTask EXCEPT !.task = task,
                              !.allow_evolution = allow_evolution,
                              !.prompt = AnalyzedDescription(task)]
    /\ ht_pc' = "analyze"
    /\ UNCHANGED <<collab_vars, engine_vars, hub_vars>>

\* Lines 36-39: the JsonGenerator answers with the dict that Agent.generate
\* returns, and re.search is given that dict.
AnalyzeReturns ==
    /\ ht_pc = "analyze"
    /\ \E o \in JsonOutcomes :
         LET response_text == DictV(Generate(o).value)
             match == ReSearch(response_text)
         IN  /\ match.raised
             /\ ht' = [ht EXCEPT !.response_text = response_text,
                                 !.error = [exc |-> match.exc, msg |-> match.detail]]
             /\ ht_pc' = "idle"
    /\ UNCHANGED ht_count
    /\ UNCHANGED <<collab_vars, engine_vars, hub_vars>>

TaskIdle ==
    /\ ht_pc = "idle"
    /\ ht = NoTask
    /\ ht_count = 0

-----------------------------------------------------------------------------
(* Specifications *)

Init ==
    /\ plan \in Plans
    /\ agents \in Pools
    /\ task_description = "Add two numbers"
    /\ pc = "start"
    /\ i = 0
    /\ pending = NoCall
    /\ step_outputs = <<>>
    /\ steps = <<>>
    /\ output = [type |-> "none"]
    /\ error = NoError
    /\ current_solution = NoResult
    /\ loop_i = 0
    /\ trace = NoTrace
    /\ gen = NoGenerate
    /\ EngineFresh
    /\ TaskIdle
    /\ HubFresh

Next ==
    \/ ExecutePlan
    \/ ActionReturns
    \/ ReviewReturns
    \/ RefineReturns

Spec == Init /\ [][Next]_vars

\* No plan is executing.
CollaborationIdle ==
    /\ plan = [steps |-> <<>>, final_output |-> Absent]
    /\ agents = <<>>
    /\ task_description = "Add two numbers"
    /\ pc = "idle"
    /\ i = 0
    /\ pending = NoCall
    /\ step_outputs = <<>>
    /\ steps = <<>>
    /\ output = [type |-> "none"]
    /\ error = NoError
    /\ current_solution = NoResult
    /\ loop_i = 0
    /\ trace = NoTrace
    /\ gen = NoGenerate

\* The evolution engine over a factory constructed with or without a
\* templates file.
EvolutionInit ==
    /\ CollaborationIdle
    /\ templates_file \in
          { NoFile, File({ <<"planner", Template("You are a planner.")>> }) }
    /\ agent_templates = LoadTemplates(templates_file)
    /\ evo_pc = "idle"
    /\ evo = NoAttempt
    /\ evo_count = 0
    /\ st_pc = "idle"
    /\ st = NoRun
    /\ st_count = 0
    /\ created = NoneCreated
    /\ flows = [f \in 1..MaxFlows |-> NoFlow]
    /\ commits = << >>
    /\ TaskIdle
    /\ HubFresh

EvolutionNext ==
    \/ EvolveAgentTemplate
    \/ ImproveReturns

SpecEvolution == EvolutionInit /\ [][EvolutionNext]_vars

\* The invocations of the evolution engine, each of which may be cancelled.
EngineNext ==
    \/ EvolveFromSingleTask
    \/ IdentifyReturns
    \/ TemplateReturns
    \/ EvolveFromExperienceStore
    \/ Cancel

SpecEngine == EvolutionInit /\ [][EngineNext]_vars

\* The factory creating agents between evolution attempts.
FactoryNext ==
    \/ EvolveAgentTemplate
    \/ ImproveReturns
    \/ CreateAgents

SpecFactory == EvolutionInit /\ [][FactoryNext]_vars

\* Evolution attempts of several tasks over one factory.
InterleavedNext ==
    \/ StartFlow
    \/ FlowReturns

SpecInterleaved == EvolutionInit /\ [][InterleavedNext]_vars

\* Agent.generate on each answer of the generation service.
GenerateInit ==
    /\ plan = [steps |-> <<>>, final_output |-> Absent]
    /\ agents = <<>>
    /\ task_description = "Add two numbers"
    /\ pc = "idle"
    /\ i = 0
    /\ pending = NoCall
    /\ step_outputs = <<>>
    /\ steps = <<>>
    /\ output = [type |-> "none"]
    /\ error = NoError
    /\ current_solution = NoResult
    /\ loop_i = 0
    /\ trace = NoTrace
    /\ gen \in { [NoGenerate EXCEPT !.o = o] : o \in GenerateOutcomes }
    /\ EngineFresh
    /\ TaskIdle
    /\ HubFresh

GenerateNext == CallGenerate

SpecGenerate == GenerateInit /\ [][GenerateNext]_vars

\* The ExperienceHub of a process that found no graph file.
HubInit ==
    /\ CollaborationIdle
    /\ EngineFresh
    /\ TaskIdle
    /\ HubFresh

HubNext ==
    \/ AddExperience
    \/ RetrieveRelevantHeuristics
    \/ RetrieveRelevantExperience

SpecHub == HubInit /\ [][HubNext]_vars

\* The ExperienceHub over several processes that share the graph file.
HubRestartNext ==
    \/ AddExperience
    \/ RetrieveRelevantHeuristics
    \/ RetrieveRelevantExperience
    \/ Restart

SpecHubRestart == HubInit /\ [][HubRestartNext]_vars

\* A MetaAgent just constructed, handling one task after the other.
TaskInit ==
    /\ CollaborationIdle
    /\ EngineFresh
    /\ TaskIdle
    /\ HubFresh

TaskNext ==
    \/ HandleTask
    \/ AnalyzeReturns

SpecTask == TaskInit /\ [][TaskNext]_vars

-----------------------------------------------------------------------------
(* Properties *)

N == Len(plan.steps)
InPool(name) == \E k \in 1..Len(agents) : agents[k].name = name
AllActorsInPool == \A k \in 1..N : InPool(plan.steps[k].agent)
Running == pc \in {"action", "review", "refine"}

\* The step of trace has its result recorded; Recorded is that result.
Settled == trace.step >= 0 /\ Len(steps) > trace.step
Recorded == steps[trace.step + 1].output
TraceAction == plan.steps[trace.step + 1].action
Looped == trace.reviews >= 1

\* C1: with every actor of the plan in the pool, execute_plan does not raise,
\* records the steps in plan order while it runs, and returns a trajectory of
\* exactly N entries, entry k holding the agent name, the action and the
\* recorded result of plan step k.
C1_TrajectoryInPlanOrder ==
    AllActorsInPool =>
        /\ pc # "raised"
        /\ Len(steps) <= N
        /\ Running => Len(steps) = i /\ i < N
        /\ pc = "done" => Len(steps) = N
        /\ \A k \in 1..Len(steps) :
              /\ steps[k].agent = plan.steps[k].agent
              /\ steps[k].action = plan.steps[k].action
              /\ steps[k].output = step_outputs[k - 1]
        /\ DOMAIN step_outputs = 0..(Len(steps) - 1)

C1_Witness ==
    /\ AllActorsInPool
    /\ pc = "done"
    /\ N = 2
    /\ Len(steps) = 2
    /\ steps[1].agent = "Planner"
    /\ steps[2].agent = "Executor"

RefinementCalls == trace.reviews + trace.refines

RefinementWithinBudget ==
    /\ trace.reviews <= MAX_REFINE_LOOPS
    /\ trace.refines <= MAX_REFINE_LOOPS
    /\ loop_i < MAX_REFINE_LOOPS
    /\ pc = "review" => trace.reviews = loop_i + 1 /\ trace.refines = loop_i
    /\ pc = "refine" => trace.reviews = loop_i + 1 /\ trace.refines = loop_i + 1

RefinementAdvances ==
    pc \in {"review", "refine"} =>
        \/ pc' \notin {"review", "refine"}
        \/ /\ trace'.step = trace.step
           /\ RefinementCalls' = RefinementCalls + 1

\* C2: one refinement makes at most MAX_REFINE_LOOPS reviewer calls and at
\* most MAX_REFINE_LOOPS refiner calls, whatever the reviewer and the refiner
\* answer, and it ends: every answer taken while it runs either ends it or
\* is one more of these calls.
C2_RefinementBounded == []RefinementWithinBudget /\ [][RefinementAdvances]_vars

C2_Witness ==
    /\ Settled
    /\ trace.reviews = MAX_REFINE_LOOPS
    /\ trace.refines = MAX_REFINE_LOOPS
    /\ trace.accepted_at = 0

\* C3: when the reviewer's answer first holds the accept sentinel on
\* iteration k, k is at most MAX_REFINE_LOOPS and the refinement has made
\* exactly k reviewer calls and k-1 refiner calls, and makes no more.
C3_AcceptOnIterationK ==
    trace.accepted_at >= 1 =>
        /\ trace.accepted_at <= MAX_REFINE_LOOPS
        /\ trace.reviews = trace.accepted_at
        /\ trace.refines = trace.accepted_at - 1
        /\ Settled

C3_Witness ==
    /\ trace.accepted_at = 2
    /\ trace.reviews = 2
    /\ trace.refines = 1

\* C4: when no review of a refinement accepts, the result recorded for the
\* step is the refiner's last answer, which is its MAX_REFINE_LOOPS-th,
\* whatever its confidence.
C4_ExhaustedKeepsLastRevision ==
    (Settled /\ Looped /\ trace.accepted_at = 0) =>
        /\ trace.refines = MAX_REFINE_LOOPS
        /\ Recorded = trace.last_refined
        /\ step_outputs[trace.step] = trace.last_refined

C4_Witness ==
    /\ Settled
    /\ Looped
    /\ trace.accepted_at = 0
    /\ Recorded = trace.last_refined
    /\ Recorded.confidence < CONFIDENCE_THRESHOLD
    /\ Recorded.response # trace.initial.response

\* C5: when the review of iteration k accepts, the result recorded for the
\* step is the solution reviewed in iteration k: the actor's own result when
\* k = 1, the refiner's (k-1)-th answer otherwise.
C5_AcceptKeepsReviewedSolution ==
    (Settled /\ trace.accepted_at >= 1) =>
        /\ trace.accepted_at = 1 => Recorded = trace.initial
        /\ trace.accepted_at > 1 =>
              Recorded = trace.last_refined /\ trace.refines = trace.accepted_at - 1
        /\ step_outputs[trace.step] = Recorded

C5_Witness ==
    /\ Settled
    /\ trace.accepted_at = 2
    /\ Recorded = trace.last_refined
    /\ Recorded # trace.initial

\* C6: the refinement is entered for a step exactly when the step's action
\* is execute, code or improve and the confidence of the actor's result is
\* below 0.75; otherwise no reviewer and no refiner is called for the step
\* and the actor's result is recorded as it is; when it is entered and the
\* pool has a reviewer and a refiner, the reviewer is called.
C6_RefinementGate ==
    trace.step >= 0 =>
        LET low == /\ TraceAction \in {"execute", "code", "improve"}
                   /\ trace.initial.confidence < CONFIDENCE_THRESHOLD
        IN  /\ trace.entered <=> low
            /\ ~low => /\ trace.reviews = 0
                       /\ trace.refines = 0
                       /\ Settled
                       /\ Recorded = trace.initial
            /\ (low /\ Reviewer.found /\ Refiner.found) => trace.reviews >= 1

C6_Witness ==
    /\ Settled
    /\ TraceAction = "execute"
    /\ trace.initial.confidence = CONFIDENCE_THRESHOLD
    /\ trace.reviews = 0
    /\ Recorded = trace.initial
    /\ Reviewer.found

FirstUnknown == CHOOSE k \in 1..N :
    /\ ~InPool(plan.steps[k].agent)
    /\ \A m \in 1..(k - 1) : InPool(plan.steps[m].agent)

\* C7: when a step names an actor that is not in the pool, execute_plan
\* raises the agent-not-found ValueError at the first such step: it never
\* returns, and no actor is called for that step or a later one.
C7_UnknownActorRaises ==
    ~AllActorsInPool =>
        /\ pc # "done"
        /\ output.type = "none"
        /\ Len(steps) < FirstUnknown
        /\ trace.step < FirstUnknown - 1
        /\ Running => i < FirstUnknown - 1
        /\ pc = "raised" =>
              /\ i = FirstUnknown - 1
              /\ Len(steps) = i
              /\ pending = NoCall
              /\ error.exc = "ValueError"
              /\ error.msg = "Agent '" \o plan.steps[i + 1].agent \o "' not found"
        /\ (pc # "start" /\ ~Running) => pc = "raised"

C7_Witness ==
    /\ pc = "raised"
    /\ Len(steps) = 1
    /\ plan.steps[2].agent = "Ghost"
    /\ trace.step = 0

Unresolved(input_source, idx) ==
    /\ ~IsStr(input_source, "task_description")
    /\ ~(IsStr(input_source, "previous_output") /\ idx > 0)
    /\ ~(input_source.type = "int" /\ input_source.val \in 0..(idx - 1))

\* C8 as the specification states it: a step whose input source names no
\* executed step is never run; execute_plan raises instead of calling the
\* step's actor.
C8_InvalidReferenceRaises ==
    pc = "action" => ~Unresolved(plan.steps[i + 1].input, i)

\* C8, amended: a step whose input source names no executed step (a later or
\* unknown step, or previous_output on the first step) raises nothing: its
\* actor is called with the empty text as the step's input, and the only
\* error execute_plan ever raises is the one for an actor missing from the
\* pool.
C8_UnresolvedInputIsEmpty ==
    /\ (pc = "action" /\ Unresolved(plan.steps[i + 1].input, i)) =>
          /\ pending.role = "actor"
          /\ pending.agent = plan.steps[i + 1].agent
          /\ pending.prompt = ActionPrompt(plan.steps[i + 1].action, "")
    /\ pc = "raised" => ~InPool(plan.steps[i + 1].agent)

C8_Witness ==
    /\ pc = "action"
    /\ i = 0
    /\ plan.steps[1].input = StrV("previous_output")
    /\ pending.prompt =
           "Implement a solution for the following task, based on this plan:\n\n"

Selector ==
    IF plan.final_output.type = "absent" THEN StrV("last_output")
    ELSE plan.final_output

\* C9 as the specification states it: the final output is the text of one
\* recorded step, the last one for last_output or no selector and the named
\* one otherwise, and is the empty text only for a plan without steps.
C9_FinalOutputIsAStepText ==
    pc = "done" =>
        IF N = 0 THEN output = StrV("")
        ELSE /\ output.val # ""
             /\ \E k \in 1..N : output.val = steps[k].output.response
             /\ IsStr(Selector, "last_output") =>
                   output.val = steps[N].output.response

\* C9, amended: the final output is the last step's recorded text for
\* last_output or no selector on a plan with steps, the recorded text of
\* step j for the index j of a recorded step, and the empty text in every
\* other case: a plan without steps, or a selector that names no recorded
\* step.
C9_FinalOutputSelection ==
    pc = "done" =>
        output = StrV(
            IF IsStr(Selector, "last_output") /\ N > 0
            THEN steps[N].output.response
            ELSE IF Selector.type = "int" /\ Selector.val \in 0..(N - 1)
                 THEN steps[Selector.val + 1].output.response
                 ELSE "")

C9_Witness ==
    /\ pc = "done"
    /\ N = 2
    /\ plan.final_output = StrV("step_9")
    /\ output = StrV("")
    /\ steps[2].output.response # ""

ErrorDescription(kind) ==
    CASE kind = "TimeoutException" ->
           "Error: Request timed out. Details: ReadTimeout"
      [] kind = "HTTPStatusError" ->
           "Error: API connection error. Status code 503. Details: Server error"
      [] kind = "RuntimeError" ->
           "Error: Runtime error during generation. Details: bad response"
      [] kind = "ConnectError" ->
           "Error: An unexpected error occurred. Details: ConnectError - refused"

IsFailureResult(result, kind) ==
    /\ result.response = ErrorDescription(kind)
    /\ result.confidence = 0

\* C10: a failing call of the generation service never makes execute_plan
\* raise: the call's result is an error description with confidence 0, the
\* run goes on, and with every actor in the pool a trajectory of all N steps
\* is returned.
C10_ActorFailureContained ==
    /\ pc = "raised" => error.exc = "ValueError" /\ ~AllActorsInPool
    /\ trace.actor_outcome \notin {"none", "ok"} =>
          IsFailureResult(trace.initial, trace.actor_outcome)
    /\ trace.refiner_outcome \notin {"none", "ok"} =>
          IsFailureResult(trace.last_refined, trace.refiner_outcome)
    /\ (AllActorsInPool /\ pc = "done") => Len(steps) = N

C10_Witness ==
    /\ pc = "done"
    /\ N = 2
    /\ Len(steps) = 2
    /\ IsFailureResult(steps[1].output, "TimeoutException")
    /\ trace.step = 1
    /\ trace.refiner_outcome = "HTTPStatusError"

-----------------------------------------------------------------------------
(* The refinement's reviewer and refiner *)

PoolTypes == { agents[k].type : k \in 1..Len(agents) }
ReviewerTypes == {"reviewer", "code_reviewer"}
RefinerTypes == {"executor", "code_generator", "hard_math_agent"}
RaisedForUnknownActor ==
    /\ error.exc = "ValueError"
    /\ Len(steps) < N
    /\ ~InPool(plan.steps[Len(steps) + 1].agent)

\* C11: when the pool has no agent usable as reviewer or none usable as
\* refiner, a refinement that line 55 triggers is skipped: no reviewer and
\* no refiner is called for the step, the actor's result is recorded
\* unchanged, and the run goes on (it raises only for an actor missing from
\* the pool at a later step).
C11_MissingRoleSkipsRefinement ==
    (trace.step >= 0 /\ trace.entered
        /\ (PoolTypes \cap ReviewerTypes = {} \/ PoolTypes \cap RefinerTypes = {})) =>
        /\ trace.reviews = 0
        /\ trace.refines = 0
        /\ pc \notin {"review", "refine"}
        /\ Settled
        /\ Recorded = trace.initial
        /\ pc = "raised" => RaisedForUnknownActor

C11_Witness ==
    /\ PoolTypes \cap RefinerTypes = {}
    /\ PoolTypes \cap ReviewerTypes # {}
    /\ trace.step = 0
    /\ trace.entered
    /\ trace.reviews = 0
    /\ pc = "done"
    /\ Recorded = trace.initial

\* C12 as the specification states it: only an agent of type reviewer
\* reviews, and in a pool without an agent of type reviewer a low-confidence
\* execute/code/improve step has no reviewer call and keeps its result.
C12_OnlyReviewerTypeReviews ==
    /\ pc = "review" => LookupAgent(pending.agent).type = "reviewer"
    /\ (trace.step >= 0 /\ trace.entered /\ "reviewer" \notin PoolTypes) =>
          /\ trace.reviews = 0
          /\ Settled
          /\ Recorded = trace.initial

\* C12: the refinement reviews only with an agent of type reviewer or
\* code_reviewer and refines only with an agent of type executor,
\* code_generator or hard_math_agent; in a pool with no agent of type
\* reviewer or code_reviewer a low-confidence execute/code/improve step has
\* no reviewer call and keeps its original result.
C12_ReviewerAndRefinerTypes ==
    /\ pc = "review" => LookupAgent(pending.agent).type \in ReviewerTypes
    /\ pc = "refine" => LookupAgent(pending.agent).type \in RefinerTypes
    /\ (trace.step >= 0 /\ trace.entered /\ PoolTypes \cap ReviewerTypes = {}) =>
          /\ trace.reviews = 0
          /\ Settled
          /\ Recorded = trace.initial

C12_Witness ==
    /\ PoolTypes \cap ReviewerTypes = {}
    /\ PoolTypes \cap RefinerTypes # {}
    /\ trace.step = 1
    /\ trace.entered
    /\ trace.reviews = 0
    /\ Len(steps) = 2
    /\ Recorded = trace.initial

-----------------------------------------------------------------------------
(* The evolution engine *)

AttemptEnded == evo_pc = "idle" /\ evo.outcome # "none"
ProposedPrompt == DictGet(evo.improved.items, "system_prompt", Absent)

-----------------------------------------------------------------------------
(* handle_task *)

TaskEnded == ht_pc = "idle" /\ ht_count > 0

\* C14: an evolution attempt is never fatal to handle_task: every call of
\* handle_task, a learning task with evolution allowed included, ends by
\* updating the Experience Hub and returning the trajectory, and raises
\* nothing.
C14_EvolutionNeverFatal ==
    TaskEnded =>
        /\ ht.error.exc = "none"
        /\ ht.hub_updated
        /\ ht.returned

-----------------------------------------------------------------------------
(* The Experience Hub *)

Added == hub_call.op = "add_experience"

\* The branch of add_experience that the arguments of the last call select.
TookLessons ==
    /\ Added
    /\ hub_call.learnings.type = "dict"
    /\ Len(hub_call.learnings.abstract_takeaways) > 0
TookSuccess ==
    /\ Added
    /\ ~TookLessons
    /\ hub_call.score.type = "float"
    /\ hub_call.score.val >= 80
    /\ hub_call.plan.type = "dict"

IsHeuristic(g, n) == Attr(g, n, "type", Absent) = StrV("heuristic")
IsPattern(g, n) == Attr(g, n, "type", Absent) = StrV("successful_pattern")
HeuristicNodes(g, text) ==
    { n \in NodeSet(g) : IsHeuristic(g, n) /\ Attr(g, n, "text", Absent) = StrV(text) }
PatternNodes(g) == { n \in NodeSet(g) : IsPattern(g, n) }
PatternNodesOf(g, p) ==
    { n \in PatternNodes(g) : SamePlan(Attr(g, n, "plan", Absent), p) }
Occurrences(s, x) == Cardinality({ k \in DOMAIN s : s[k] = x })
Count(g, n, key) == Attr(g, n, key, IntV(0)).val
TheNode(S) == CHOOSE n \in S : TRUE

\* C15: after an add_experience call that carries lessons, every non-blank
\* takeaway text has exactly one heuristic node; a node the call created has
\* positive_count 0 and negative_count 1 for a text given once, and a node
\* that existed has its negative_count raised by one for each time the text
\* is given and its positive_count unchanged (added twice: 0 and 2).
C15_SameHeuristicTwice ==
    TookLessons =>
        LET takeaways == hub_call.learnings.abstract_takeaways IN
        \A k \in DOMAIN takeaways :
            LET text == takeaways[k]
                now == HeuristicNodes(graph, text)
                before == HeuristicNodes(hub_prev, text)
                times == Occurrences(takeaways, text)
            IN  IF text = "  " THEN now = {}
                ELSE /\ Cardinality(now) = 1
                     /\ IF before = {}
                        THEN /\ Count(graph, TheNode(now), "positive_count") = 0
                             /\ Count(graph, TheNode(now), "negative_count") = times
                        ELSE /\ now = before
                             /\ Count(graph, TheNode(now), "positive_count")
                                  = Count(hub_prev, TheNode(now), "positive_count")
                             /\ Count(graph, TheNode(now), "negative_count")
                                  = Count(hub_prev, TheNode(now), "negative_count") + times

C15_Witness ==
    /\ TookLessons
    /\ hub_call.learnings.abstract_takeaways = <<"Check the units">>
    /\ Cardinality(HeuristicNodes(hub_prev, "Check the units")) = 1
    /\ Count(hub_prev, TheNode(HeuristicNodes(hub_prev, "Check the units")),
             "negative_count") = 1
    /\ Cardinality(HeuristicNodes(graph, "Check the units")) = 1
    /\ Count(graph, TheNode(HeuristicNodes(graph, "Check the units")),
             "negative_count") = 2
    /\ Count(graph, TheNode(HeuristicNodes(graph, "Check the units")),
             "positive_count") = 0

\* C16: an add_experience call with a success outcome leaves one pattern
\* node for the plan: created with successCount 1 when the plan is new, and
\* with its successCount raised by exactly 1, and no pattern node created,
\* when a pattern node for the same plan existed.
C16_PatternSuccessCount ==
    TookSuccess =>
        LET now == PatternNodesOf(graph, hub_call.plan)
            before == PatternNodesOf(hub_prev, hub_call.plan)
        IN  /\ Cardinality(now) = 1
            /\ IF before = {}
               THEN /\ Attr(graph, TheNode(now), "successCount", Absent) = IntV(1)
                    /\ Cardinality(PatternNodes(graph))
                          = Cardinality(PatternNodes(hub_prev)) + 1
               ELSE /\ now = before
                    /\ PatternNodes(graph) = PatternNodes(hub_prev)
                    /\ Attr(graph, TheNode(now), "successCount", Absent)
                          = IntV(Count(hub_prev, TheNode(now), "successCount") + 1)

\* The heuristic nodes one hop from the problem-type node or from a concept
\* node that the task analysis names.
OneHopHeuristics(g, task_analysis) ==
    { n \in NodeSet(g) :
        /\ IsHeuristic(g, n)
        /\ \/ <<"problem_" \o ProblemType(task_analysis), n>> \in g.edges
           \/ \E k \in DOMAIN task_analysis.knowledge_domains :
                 <<"concept_" \o task_analysis.knowledge_domains[k], n>> \in g.edges }

\* C17: an add_experience call with a success outcome completes without
\* error, raises by exactly 1 the positive_count of every heuristic node
\* reachable from the task's problem type, gives each an edge to the pattern
\* node, and creates no node but the pattern node and the problem-type node.
C17_SuccessReinforcesHeuristics ==
    TookSuccess =>
        LET pattern == PatternNodesOf(graph, hub_call.plan)
            reachable == OneHopHeuristics(hub_prev, hub_call.task_analysis)
        IN  /\ hub_call.raised = "none"
            /\ Cardinality(pattern) = 1
            /\ \A h \in reachable :
                  /\ Count(graph, h, "positive_count")
                        = Count(hub_prev, h, "positive_count") + 1
                  /\ <<h, TheNode(pattern)>> \in graph.edges
            /\ NodeSet(graph) \ NodeSet(hub_prev)
                  \subseteq pattern \cup { "problem_" \o ProblemType(hub_call.task_analysis) }

\* The place of a node in the insertion order of the graph.
Position(g, n) == CHOOSE k \in 1..Len(g.nodes) : g.nodes[k] = n
TextsOf(g, s) == [k \in DOMAIN s |-> Attr(g, s[k], "text", Absent).val]

\* C18: retrieve_relevant_heuristics returns the texts of exactly the
\* heuristic nodes one hop from the problem-type node or from a named concept
\* node, each once, by positive_count - negative_count descending, equal
\* scores in the order in which the heuristics were first added.
C18_RankedInInsertionOrder ==
    hub_call.op = "retrieve_relevant_heuristics" =>
        \E s \in ListsOf(OneHopHeuristics(graph, hub_call.task_analysis)) :
            /\ hub_call.heuristics = TextsOf(graph, s)
            /\ \A a, b \in DOMAIN s : a < b =>
                  \/ Score(graph, s[a]) > Score(graph, s[b])
                  \/ /\ Score(graph, s[a]) = Score(graph, s[b])
                     /\ Position(graph, s[a]) < Position(graph, s[b])

\* The pattern nodes one hop from the problem-type node of the task.
ReachablePatterns(g, task_analysis) ==
    { n \in PatternNodes(g) :
        <<"problem_" \o ProblemType(task_analysis), n>> \in g.edges }

\* C19: retrieve_relevant_experience returns a pattern whenever a pattern
\* node is reachable from the task's problem-type node, the reachable one
\* with the highest successCount, and returns none only when none exists.
C19_BestPatternReturned ==
    hub_call.op = "retrieve_relevant_experience" =>
        LET reachable == ReachablePatterns(graph, hub_call.task_analysis) IN
        IF reachable = {} THEN hub_call.patterns = <<>>
        ELSE /\ Len(hub_call.patterns) >= 1
             /\ hub_call.patterns[1] \in reachable
             /\ \A n \in reachable :
                   Count(graph, hub_call.patterns[1], "successCount")
                       >= Count(graph, n, "successCount")

Counters == {"positive_count", "negative_count", "successCount"}

\* C20: no ExperienceHub call removes a node, lowers a counter of a node or
\* changes the type, the text or the plan of a node that existed before
\* the call.
C20_CountersOnlyGrow ==
    \A n \in NodeSet(hub_prev) :
        /\ n \in NodeSet(graph)
        /\ \A key \in Counters :
              key \in DictKeys(NodeAttrs(hub_prev, n)) =>
                  /\ key \in DictKeys(NodeAttrs(graph, n))
                  /\ Count(graph, n, key) >= Count(hub_prev, n, key)
        /\ Attr(graph, n, "type", Absent) = Attr(hub_prev, n, "type", Absent)
        /\ Attr(graph, n, "text", Absent) = Attr(hub_prev, n, "text", Absent)
        /\ "plan" \in DictKeys(NodeAttrs(graph, n))
              <=> "plan" \in DictKeys(NodeAttrs(hub_prev, n))
        /\ "plan" \in DictKeys(NodeAttrs(hub_prev, n)) =>
              SamePlan(Attr(graph, n, "plan", Absent), Attr(hub_prev, n, "plan", Absent))
        /\ DictKeys(NodeAttrs(hub_prev, n)) \subseteq DictKeys(NodeAttrs(graph, n))

C20_Witness ==
    /\ Added
    /\ \E n \in NodeSet(hub_prev) :
          /\ IsHeuristic(hub_prev, n)
          /\ Count(graph, n, "negative_count") > Count(hub_prev, n, "negative_count")
    /\ \E n \in NodeSet(graph) \ NodeSet(hub_prev) : IsHeuristic(graph, n)

\* The problem-type nodes of the task analyses the model draws.
ProblemTypeNodes ==
    { "problem_" \o ProblemType(task_analysis) : task_analysis \in RetrievalChoices }

\* C21: after any sequence of add_experience calls from the empty graph,
\* every heuristic node and every pattern node has an edge coming from a
\* problem-type node.
C21_NoOrphanKnowledgeNode ==
    \A n \in NodeSet(graph) :
        (IsHeuristic(graph, n) \/ IsPattern(graph, n)) =>
            \E u \in ProblemTypeNodes :
                u \in NodeSet(graph) /\ <<u, n>> \in graph.edges

C21_Witness ==
    /\ \E n \in NodeSet(graph) : IsHeuristic(graph, n)
    /\ \E n \in NodeSet(graph) : IsPattern(graph, n)
    /\ hub_call.raised = "none"

-----------------------------------------------------------------------------
(* The graph file *)

Loaded == hub_call.op = "load" /\ db_file.exists

\* C22: a graph saved and then loaded by a fresh ExperienceHub has the same
\* nodes, the same attributes on every node and the same directed edges as
\* the graph that was saved.
C22_SaveLoadRoundTrip ==
    Loaded =>
        /\ NodeSet(graph) = NodeSet(hub_saved)
        /\ \A n \in NodeSet(hub_saved) : NodeAttrs(graph, n) = NodeAttrs(hub_saved, n)
        /\ graph.edges = hub_saved.edges

C22_Witness ==
    /\ Loaded
    /\ \E n \in NodeSet(graph) : IsHeuristic(graph, n)
    /\ \E n \in NodeSet(graph) : IsPattern(graph, n)
    /\ Cardinality(graph.edges) >= 2

\* C23: the graph is write-through: after every add_experience call,
\* however it ended, the graph in the file is the graph in memory.
C23_WriteThrough ==
    Added => db_file = DbFile(graph)

Plans24 == { o.plan : o \in { c \in OutcomeChoices : c.plan.type = "dict" } }
Texts24 == { "Check the units", "Verify the base case" }

\* C24: a node id depends on the content only, in every process: whatever
\* processes added it, a heuristic text has at most one heuristic node and a
\* plan has at most one pattern node.
C24_OneNodePerContent ==
    /\ \A text \in Texts24 : Cardinality(HeuristicNodes(graph, text)) <= 1
    /\ \A p \in Plans24 : Cardinality(PatternNodesOf(graph, p)) <= 1

-----------------------------------------------------------------------------
(* The invocations of the evolution engine *)

RunEnded == st_pc \in {"done", "raised", "cancelled"}

\* The categories whose template differs from the one at the start of the
\* invocation.
ChangedCategories ==
    { c \in DictKeys(agent_templates) \cup DictKeys(st.before) :
        DictGet(agent_templates, c, JNone) # DictGet(st.before, c, JNone) }

\* C25: one evolution invocation changes the template of at most one actor
\* category, however many items the proposal holds.
C25_AtMostOneCategoryChanged ==
    st_pc # "idle" => Cardinality(ChangedCategories) <= 1

\* C26: evolve_from_experience_store with fewer than 3 stored experiences
\* returns normally, calls the EvolutionAgent not at all and changes no
\* template; with 3 or more it asks the EvolutionAgent for a synthesis.
C26_SynthesisNeedsThreeExperiences ==
    (st.op = "experience_store" /\ RunEnded) =>
        IF st.stored < 3
        THEN /\ st_pc = "done"
             /\ st.calls = << >>
             /\ agent_templates = st.before
             /\ templates_file = st.file_before
        ELSE /\ st.calls # << >>
             /\ st.calls[1] = "synthesize"

TemplateItems ==
    { n \in 1..Len(st.areas) :
        st.areas[n].isdict /\ st.areas[n].type = StrV("agent_template") }

\* The list holds one agent_template item, which names a category, and the
\* answer to improve_agent_template was a valid template.
OneItemThenValidTemplate ==
    /\ st.op = "single_task"
    /\ st_pc \in {"done", "raised"}
    /\ Cardinality(TemplateItems) = 1
    /\ \A n \in TemplateItems : ~IsFalsy(st.areas[n].element)
    /\ evo.improved.type = "dict"
    /\ ProposedPrompt.type = "str"
    /\ Len(ProposedPrompt.val) > 20

-----------------------------------------------------------------------------
(* Agent.generate *)

\* The self-assessment holds a confidence that is a number.
SuppliedConfidence ==
    /\ gen.o.kind = "ok"
    /\ gen.o.eval.type = "dict"
    /\ gen.o.eval.confidence.type = "float"

\* C28: the confidence of every result of Agent.generate lies in [0,1]: it
\* is the self-assessed value when one is supplied, 0.5 when the
\* self-assessment is missing or cannot be parsed, and 0 when the call of
\* the generation service failed.
C28_ConfidenceInUnitInterval ==
    gen.called =>
        /\ gen.confidence >= 0
        /\ gen.confidence <= 100
        /\ gen.confidence =
              IF gen.o.kind # "ok" THEN 0
              ELSE IF SuppliedConfidence THEN gen.o.eval.confidence.val
              ELSE 50

-----------------------------------------------------------------------------
(* The input of a step *)

\* The text recorded in the trajectory for step idx (counted from 0).
RecordedText(idx) == steps[idx + 1].output.response

\* The step whose actor is being awaited takes its input from the task
\* description, from the step before it, or from an earlier step it names.
InputIsTask == IsStr(plan.steps[i + 1].input, "task_description")
InputIsPrevious == IsStr(plan.steps[i + 1].input, "previous_output") /\ i > 0
InputIsEarlierStep ==
    /\ plan.steps[i + 1].input.type = "int"
    /\ plan.steps[i + 1].input.val >= 0
    /\ plan.steps[i + 1].input.val < i

PromptOver(input_content) ==
    pending.prompt = ActionPrompt(plan.steps[i + 1].action, input_content)

\* C30: the input given to step i is the task description when its source
\* is "task_description"; the recorded text of step i-1, which is the
\* refined text when that step was refined, when the source is
\* "previous_output" and i > 0; and the recorded text of the earlier step
\* that the source names otherwise.
C30_StepInputResolved ==
    pc = "action" =>
        /\ InputIsTask => PromptOver(task_description)
        /\ (~InputIsTask /\ InputIsPrevious) => PromptOver(RecordedText(i - 1))
        /\ (~InputIsTask /\ ~InputIsPrevious /\ InputIsEarlierStep) =>
               PromptOver(RecordedText(plan.steps[i + 1].input.val))

C30_Witness ==
    /\ pc = "action"
    /\ i = 1
    /\ InputIsPrevious
    /\ trace.step = 0
    /\ trace.refines > 0
    /\ RecordedText(0) # trace.initial.response
    /\ PromptOver(RecordedText(0))

-----------------------------------------------------------------------------
(* The order of the invocations of one run *)

\* While execute_plan runs, one invocation is awaited, and it is the one
\* its position names; at rest none is.
OneInFlight ==
    /\ pc = "action" => pending.role = "actor"
    /\ pc = "review" => pending.role = "reviewer"
    /\ pc = "refine" => pending.role = "refiner"
    /\ pc \notin {"action", "review", "refine"} => pending = NoCall

\* A step's actor is invoked once the results of all the steps before it
\* are recorded, the one just before it in this very transition; a reviewer
\* or refiner call belongs to the step whose actor answered last.
InvokedInOrder ==
    /\ (pc' = "action" /\ pc # "start") =>
           /\ i' = i + 1
           /\ Len(steps') = i'
           /\ Len(steps) = i
           /\ steps'[i'].agent = plan.steps[i'].agent
           /\ steps'[i'].output = step_outputs'[i]
           /\ pending'.agent = plan.steps[i' + 1].agent
    /\ (pc' = "action" /\ pc = "start") => i' = 0 /\ steps' = << >>
    /\ pc' \in {"review", "refine"} =>
           /\ pc \in {"action", "review", "refine"}
           /\ i' = i
           /\ steps' = steps
           /\ step_outputs' = step_outputs

\* C31: within one execute_plan run the invocations are strictly
\* sequential in plan order: the actor of step i+1 is invoked only when the
\* result of step i, after every reviewer and refiner call of its
\* refinement, has been recorded, and no two invocations overlap.
C31_StrictlySequential == []OneInFlight /\ [][InvokedInOrder]_vars

C31_Witness ==
    /\ pc = "action"
    /\ i = 1
    /\ Len(steps) = 1
    /\ trace.step = 0
    /\ trace.reviews = MAX_REFINE_LOOPS
    /\ trace.refines = MAX_REFINE_LOOPS

-----------------------------------------------------------------------------
(* The calls of one refinement *)

\* The feedbacks that do not hold the accept sentinel.
Rejections ==
    { Generate(o).value.response : o \in ReviewOutcomes } \ 
        { f \in { Generate(o).value.response : o \in ReviewOutcomes } :
            SaysCorrect(f) }

AlternatingCalls ==
    /\ pc' = "review" =>
           /\ pc \in {"action", "refine"}
           /\ pc = "action" => loop_i' = 0
           /\ pc = "refine" => loop_i' = loop_i + 1
           /\ pending'.prompt = ReviewPrompt(current_solution')
    /\ pc' = "refine" =>
           /\ pc = "review"
           /\ trace'.accepted_at = 0
           /\ pending.prompt = ReviewPrompt(current_solution)
           /\ \E feedback \in Rejections :
                  pending'.prompt = RefinePrompt(current_solution.response, feedback)
    /\ pc = "refine" =>
           IF loop_i + 1 < MAX_REFINE_LOOPS
           THEN pc' = "review"
           ELSE pc' \notin {"review", "refine"}
    /\ (pc = "review" /\ pc' # "refine") =>
           /\ pc' \notin {"review", "refine"}
           /\ trace'.accepted_at = loop_i + 1

\* C32: within one refinement the reviewer and refiner calls alternate,
\* starting with a reviewer call; a refiner call follows at once a review
\* that did not accept the solution it is to replace; and a refinement ends
\* only on an accept or on the exhausted budget, never because a refined
\* solution's confidence reached the threshold.
C32_ReviewAndRefineAlternate == [][AlternatingCalls]_vars

C32_Witness ==
    /\ pc = "review"
    /\ loop_i = 1
    /\ current_solution.confidence >= CONFIDENCE_THRESHOLD
    /\ trace.refines = 1

-----------------------------------------------------------------------------
(* The accept sentinel *)

\* The solution that the last review judged.
Reviewed == IF trace.refines = 0 THEN trace.initial ELSE trace.last_refined

\* C40: the refinement accepts by substring match alone: it ends keeping
\* the reviewed solution exactly when the reviewer's text, upper-cased,
\* holds "CORRECT" anywhere, so also for a review that says "incorrect",
\* and no refiner call follows such a review; after any other review a
\* refiner call follows.
C40_AcceptBySubstring ==
    trace.feedback # "" =>
        IF Contains(Upper(Chars(trace.feedback)), Chars("CORRECT"))
        THEN /\ pc # "refine"
             /\ Settled
             /\ trace.accepted_at = trace.reviews
             /\ trace.refines = trace.reviews - 1
             /\ Recorded = Reviewed
        ELSE /\ trace.accepted_at = 0
             /\ trace.refines >= 1
             /\ pc = "refine" \/ trace.last_refined # NoResult

C40_Witness ==
    /\ trace.feedback = "This is incorrect."
    /\ Settled
    /\ trace.reviews = 2
    /\ trace.refines = 1
    /\ Recorded = trace.last_refined

-----------------------------------------------------------------------------
(* The branches of add_experience *)

Heuristics(g) == { n \in NodeSet(g) : IsHeuristic(g, n) }
EdgesInto(g, S) == { e \in g.edges : e[2] \in S }

\* C33: the two write branches of add_experience are disjoint: a call whose
\* learnings carry a non-empty abstract_takeaways list creates and links no
\* pattern node, even with a score of 0.8 or more, and any other call
\* creates, changes and links no heuristic node.
C33_BranchesDisjoint ==
    Added =>
        IF TookLessons
        THEN /\ PatternNodes(graph) = PatternNodes(hub_prev)
             /\ EdgesInto(graph, PatternNodes(graph))
                    = EdgesInto(hub_prev, PatternNodes(hub_prev))
        ELSE /\ Heuristics(graph) = Heuristics(hub_prev)
             /\ \A n \in Heuristics(graph) : NodeAttrs(graph, n) = NodeAttrs(hub_prev, n)
             /\ EdgesInto(graph, Heuristics(graph))
                    = EdgesInto(hub_prev, Heuristics(hub_prev))

C33_Witness ==
    /\ TookLessons
    /\ IsSuccess(hub_call.score)
    /\ hub_call.plan.type = "dict"
    /\ Heuristics(graph) # Heuristics(hub_prev)
    /\ PatternNodes(graph) = {}

\* C34: a call with no takeaways takes the success branch exactly when the
\* score is 0.8 or more, 0.8 included, and a plan is recorded; in every
\* other case it leaves the nodes, the edges and the counters of the graph
\* as they were.
C34_SuccessFromPointEight ==
    (Added /\ ~TookLessons) =>
        IF hub_call.score.type = "float" /\ hub_call.score.val >= 80
              /\ hub_call.plan.type = "dict"
        THEN \E n \in PatternNodesOf(graph, hub_call.plan) :
                 <<ProblemNode(hub_call.task_analysis), n>> \in graph.edges
        ELSE graph = hub_prev

C34_Witness ==
    /\ Added
    /\ ~TookLessons
    /\ hub_call.score = FloatV(80)
    /\ PatternNodes(hub_prev) = {}
    /\ PatternNodes(graph) # {}

Takeaways == hub_call.learnings.abstract_takeaways
Blank(text) == text = "  " \/ text = ""
NonBlank == { k \in DOMAIN Takeaways : ~Blank(Takeaways[k]) }
Concepts == hub_call.task_analysis.knowledge_domains
Sources ==
    { ProblemNode(hub_call.task_analysis) }
        \cup { ConceptNode(Concepts[k]) : k \in DOMAIN Concepts }

\* C35: an empty or whitespace-only takeaway creates no heuristic node, no
\* edge and no counter change; each non-blank takeaway is stored and linked
\* from the problem-type node and from every concept node of the task
\* analysis, and the call adds nothing else.
C35_BlankTakeawaysIgnored ==
    TookLessons =>
        /\ \A n \in Heuristics(graph) : ~Blank(Attr(graph, n, "text", Absent).val)
        /\ \A k \in NonBlank :
              /\ HeuristicNodes(graph, Takeaways[k]) # {}
              /\ \A n \in HeuristicNodes(graph, Takeaways[k]) \ NodeSet(hub_prev) :
                    \A s \in Sources : <<s, n>> \in graph.edges
        /\ NonBlank = {} => graph = hub_prev
        /\ Cardinality(NodeSet(graph) \ NodeSet(hub_prev))
              <= Cardinality({ Takeaways[k] : k \in NonBlank }) + Cardinality(Sources)
        /\ \A e \in graph.edges \ hub_prev.edges :
              /\ e[1] \in Sources
              /\ \E k \in NonBlank : e[2] \in HeuristicNodes(graph, Takeaways[k])

C35_Witness ==
    /\ TookLessons
    /\ \E k \in DOMAIN Takeaways : Blank(Takeaways[k])
    /\ NonBlank # {}
    /\ Len(Concepts) = 1
    /\ Cardinality(Heuristics(graph)) = 1
    /\ Cardinality(graph.edges) = 2

Retrieved ==
    hub_call.op \in {"retrieve_relevant_heuristics", "retrieve_relevant_experience"}

\* A retrieval is the step that makes a retrieval the last call.
ReadOnlyRetrieval ==
    (Retrieved' /\ hub_count' = hub_count + 1) =>
        /\ graph' = graph
        /\ db_file' = db_file
        /\ hub_call'.raised = "none"

\* Line 92 reads the text of every heuristic it found.
RetrievalCannotFail ==
    \A task_analysis \in RetrievalChoices :
        \A n \in RelevantHeuristicIds(graph, task_analysis) :
            "text" \in DictKeys(NodeAttrs(graph, n))

\* C36: retrieve_relevant_heuristics and retrieve_relevant_experience only
\* read: for any graph and any task analysis, unknown problem types and
\* concepts included, they leave the nodes, the edges, the counters and the
\* file as they were, and they do not fail.
C36_RetrievalReadOnly == []RetrievalCannotFail /\ [][ReadOnlyRetrieval]_vars

C36_Witness ==
    /\ Retrieved
    /\ hub_call.task_analysis = TaskAnalysis(StrV("code"), <<"graphs">>)
    /\ graph # EmptyGraph
    /\ ~HasNode(graph, "problem_code")
    /\ hub_call.heuristics = << >>

-----------------------------------------------------------------------------
(* The frame of an evolution attempt *)

OtherCategoriesKept ==
    AttemptEnded =>
        /\ \A p \in evo.before :
              (evo.agent_type.type # "str" \/ p[1] # evo.agent_type.val)
                  => p \in agent_templates
        /\ \A p \in agent_templates :
              (evo.agent_type.type # "str" \/ p[1] # evo.agent_type.val)
                  => p \in evo.before

\* An attempt without a target category ends where it starts.
NoTargetNoCall ==
    (evo_count' = evo_count + 1 /\ IsFalsy(evo'.agent_type)) =>
        /\ evo_pc' = "idle"
        /\ evo'.response = ""
        /\ agent_templates' = agent_templates
        /\ templates_file' = templates_file

\* C38: an attempt of _evolve_agent_template for a category leaves the
\* template of every other category as it was, whether or not the
\* category's own template was replaced, and an attempt with an empty
\* agent_type calls the EvolutionAgent not at all and changes nothing.
C38_OtherCategoriesUntouched == []OtherCategoriesKept /\ [][NoTargetNoCall]_vars

C38_Witness ==
    /\ AttemptEnded
    /\ evo.outcome = "saved"
    /\ evo.agent_type = StrV("planner")
    /\ Cardinality(DictKeys(agent_templates)) = 5
    /\ DictGet(agent_templates, "planner", JNone) # DictGet(evo.before, "planner", JNone)

-----------------------------------------------------------------------------
(* Committed templates *)

\* C39: once a template has been committed for a category, every agent of
\* the category that the factory creates afterwards carries the committed
\* system_prompt.
C39_CreatedAgentsCarryCommitted ==
    (created.made /\ created.committed # Absent) =>
        created.system_prompt = created.committed

BothSavedFor(c) ==
    /\ \A f \in 1..MaxFlows :
          /\ flows[f].pc = "ended"
          /\ flows[f].rec.outcome = "saved"
          /\ flows[f].rec.agent_type = c
    /\ \E f \in 1..MaxFlows : flows[f].overlapped

\* C37: when two attempts for one category interleave at their awaits and
\* both pass validation, the store holds for the category exactly the
\* template that was saved last, whole, and the file holds the map that is
\* in memory.
C37_LastWriteWins ==
    \A c \in FlowTypes :
        BothSavedFor(c) =>
            /\ Len(commits) = MaxFlows
            /\ DictGet(agent_templates, c.val, JNone) = commits[Len(commits)].template
            /\ \A p \in agent_templates :
                  p[1] # c.val => p \in flows[1].rec.before
            /\ templates_file = File(agent_templates)

C37_Witness ==
    /\ BothSavedFor(StrV("planner"))
    /\ flows[1].rec.improved # flows[2].rec.improved
    /\ flows[1].rec.before = flows[2].rec.before
    /\ DictGet(agent_templates, "planner", JNone) = flows[1].rec.improved
    /\ commits[1].template = flows[2].rec.improved

====
